---- MODULE Spec2Model ----
\* A model of resources/lib/backgroundthread.py (PlexKodiConnect):
\*   - ProcessingQueue / OrderedQueue, the section-ordered delivery queue,
\*     with its producers (put), its single consumer (get, task_done) and the
\*     condition variables not_full, not_empty and not_next_item;
\*   - MutablePriorityQueue / BackgroundThreader / BackgroundWorker, the
\*     reprioritizable task queue and the workers that dequeue from it.
EXTENDS Integers, Sequences, FiniteSets, TLC

\* ------------------------------------------------------------------ bounds
\* Number of sections registered through add_section (the sentinel section of
\* put_sentinel comes on top of these).
MaxSections == 2
\* Largest number_of_items of a section.
MaxItems == 2
\* Largest capacity handed to the constructor, ProcessingQueue(maxsize=...).
MaxSize == 2
\* Number of put() calls made for an item whose section was never registered.
MaxErrors == 1
\* The threads calling ProcessingQueue.put().
Producers == {"p1", "p2"}
\* Number of Task objects handed to the BackgroundThreader.
MaxTasks == 3
\* Number of moveToFront calls.
MaxMoves == 2
\* Longest task list handed to addTasks or addTasksToFront.
MaxBatch == 2
\* The BackgroundWorkers of the BackgroundThreader (worker_count).
Workers == {"w1", "w2"}
\* self.workers, in list order
WorkerList == <<"w1", "w2">>
\* Number of times a Task object that was handed in before is handed in again.
MaxResubmits == 1
\* Number of BackgroundThreader.abort() calls.
MaxAborts == 1
\* Number of Task.cancel() calls.
MaxCancels == 1
\* Number of task bodies that raise an exception.
MaxRaises == 1
\* The threads that call cancel(), suspend() and resume() of a KillableThread.
Controllers == {"c1", "c2"}
\* Items the deletion stage finds to remove in one run.
MaxDeletes == 2
\* Items the fetch workers put on the delivery queue in one run.
MaxFetches == 2
\* reset() calls made on the ThreaderManager.
MaxResets == 2
\* Tasks handed to the ThreaderManager.
MaxTmTasks == 2
\* the largest worker_count the ThreaderManager is constructed with, next to
\* the default
MaxWorkerCount == 2
\* The generations (BackgroundThreader objects) of the ThreaderManager, by the
\* index they were created with.
Gens == 0..MaxResets
\* Sections of the catalogue that one enumeration goes through.
MaxCatalog == 2
\* The two enumerations of one run: new and changed items, then playstates.
Enumerators == {1, 2}
\* Longest task group (Tasks) to start from.
MaxGroup == 3
\* Largest priority of a task in a group.
MaxGroupPriority == 2

\* Python's None (an index, a section reference, a queue reference).
None == -1
\* The section of an item that is never registered with the queue.
NoSection == 0
\* The ids of the Section objects: regular sections and the sentinel section.
SectionIds == 1..(MaxSections + 1)

VARIABLES
    \* ---- ProcessingQueue fields
    maxsize,           \* self.maxsize
    sections,          \* self._sections: deque of Section references
    queues,            \* self._queues: deque of sub-queue references
    current_section,   \* self._current_section
    current_queue,     \* self._current_queue
    counter,           \* self._counter
    unfinished_tasks,  \* self.unfinished_tasks
    \* ---- the objects the references point to
    secinfo,           \* Section objects: plex_type == album, number_of_items, failed_items
    qitems,            \* sub-queue objects: self.queue (deque, or heap list)
    next_index,        \* OrderedQueue.next_index
    \* ---- threads
    not_full_waiters,  \* threads waiting on self.not_full, in waiting order
    pstate,            \* producer: "idle", "wait" (in not_full.wait), "ready" (notified)
    pitem,             \* the item of a producer's put() call in progress
    cstate,            \* consumer: "idle", "wait_ne", "woke_ne", "wait_next", "woke_next"
    \* ---- history
    nsec,              \* Section objects created so far
    sentinel,          \* the section handed to put_sentinel, None before
    arrival,           \* per section, the indices in the order _put stored them
    delivered,         \* the payloads get() returned, in order
    from_queue,        \* per returned payload, the sub-queue it was taken from
    unacked,           \* get() calls not yet followed by task_done()
    raised,            \* the payloads of the put() calls that raised RuntimeError
    unreg_calls        \* put() calls made for an item of an unregistered section

VARIABLES
    \* ---- BackgroundThreader / MutablePriorityQueue / Task
    tq,                \* self._queue.queue: the heap list of the queued tasks
    priority,          \* BackgroundThreader.priority
    prio,              \* Task.priority of the tasks handed in so far (task 1, 2, ...)
    finished,          \* the tasks with Task.finished set
    \* ---- BackgroundWorker
    wstate,            \* worker thread: "none", "start", "loop", "run", "exiting"
    wtask,             \* BackgroundWorker._task
    \* ---- the thread that calls the BackgroundThreader
    cl_pc,             \* "idle", "addTasks", "front", "move", "startWorkers"
    cl_tasks,          \* the tasks of the running call that are still to be put
    cl_p,              \* the local p of addTasksToFront; lowest - 1 in moveToFront
    cl_item,           \* the qitem of the running moveToFront call
    \* ---- history
    dequeued,          \* the tasks in the order get_nowait() returned them
    plain,             \* tasks put by addTasks and not touched by moveToFront
    front_old,         \* the tasks queued when the last addTasksToFront call began
    front_queued,      \* those of front_old still queued when the call put its
                       \* first task
    front_new,         \* the task list of the last addTasksToFront call
    front_clean,       \* no moveToFront since the last addTasksToFront call began
    mtf,               \* the queued task the last moveToFront moved, None when
                       \* it was dequeued or another task was put in front since
    moved,             \* the tasks moveToFront gave a priority while they were queued
    moves              \* moveToFront calls so far

VARIABLES
    \* ---- Task, BackgroundWorker, BackgroundThreader: cancelling and aborting
    t_canceled,        \* the tasks with Task._canceled set
    th_abort,          \* BackgroundThreader._abort
    w_abort,           \* BackgroundWorker._abort
    abortRequested,    \* xbmc.abortRequested
    nonstopping,       \* the workers are NonstoppingBackgroundWorkers
    ab_i,              \* abort(): the position of its loop in self.workers
    \* ---- history
    resubmits,         \* addTask calls made for a task handed in before
    put_count,         \* per task, the number of times it was put into the queue
    started,           \* per task, the number of times its run() was called
    failed,            \* the tasks whose run() raised an exception
    w_failed,          \* the workers in whose loop a run() raised
    abort_calls        \* abort() calls so far

VARIABLES
    \* ---- KillableThread fields
    kt_canceled,        \* self._canceled
    kt_suspended,       \* self._suspended
    is_not_suspended,   \* self._is_not_suspended (the flag of the Event)
    suspension_reached, \* self._suspension_reached
    is_not_asleep,      \* self._is_not_asleep
    suspension_timeout, \* self.suspension_timeout: None, or a timeout
    stop_pkc,           \* app.APP.stop_pkc
    \* ---- the thread itself
    th_pc,              \* "run"; in wait_while_suspended: "wws_entered",
                        \* "wws_wait" (blocked), "wws_woke", "wws_ret"; in
                        \* sleep: "sleep_entered", "sleep_wait" (blocked),
                        \* "sleep_woke"
    th_timeout,         \* the timeout of the wait the thread is blocked in
    \* ---- the threads calling cancel(), suspend(), resume()
    c_pc,               \* per controller: "idle", "cancel_2", "cancel_3",
                        \* "suspend_2" .. "suspend_5", "suspend_wait",
                        \* "resume_2", "resume_3"
    c_block,            \* the block argument of a controller's suspend() call,
                        \* until the call has read it
    \* ---- history
    wake_cause,         \* what ended the thread's last wait: "flag" (no wait at
                        \* all), "timeout", "cancel", "suspend", "resume"
    cancel_in_block,    \* the controllers whose running cancel() began while
                        \* the thread was blocked in the wait it is still in
    cancels_done,       \* cancel() calls that have returned: 0, 1, 2 (or more)
    wws_after_cancel,   \* the running wait_while_suspended() call began after a
                        \* cancel() call had returned
    wws_ret,            \* what wait_while_suspended() returned last
    timed_out           \* the last wait_while_suspended() ended by its timeout
                        \* and no suspend() statement ran since it returned

VARIABLES
    \* ---- Tasks (a list of Task objects)
    ts_list,            \* the list: each member a record with the Task's id,
                        \* priority, finished and _canceled
    ts_pc,              \* "idle" before Tasks.add, "done" after it
    \* ---- history
    ts_before,          \* the list as it was when add() was called
    ts_arg              \* the argument of add(): a list of Task records

tsVars == <<ts_list, ts_pc, ts_before, ts_arg>>

VARIABLES
    \* ---- FullSync
    fs_pc,              \* the position of the FullSync thread
    fs_successful,      \* self.successful
    fs_cancel,          \* what self.should_cancel() returns
    fs_section_queue,   \* self.section_queue: sections, and None at the end
    fs_cur,             \* processing_loop_playstates: section
    en_pc,              \* per threaded_get_iterators thread: "off", "check",
                        \* "iter", "add", "put", "finally", "ended"
    en_i,               \* per threaded_get_iterators thread: the section it
                        \* has reached in app.SYNC.sections
    scanner,            \* the FillMetadataQueue thread: "off", "run", "ended"
    fetchers,           \* the GetMetadataThread threads: "run", "ended"
    applier,            \* the ProcessMetadataThread: "off", "run", "ended"
    fs_removed,         \* ctx.remove calls of the deletion stage so far
    \* ---- history
    fs_calls,           \* the add_section and put_sentinel calls made on
                        \* self.processing_queue, in order
    fs_enum_errors,     \* <<thread, section>> for which get_section_iterator raised
    fs_empty,           \* <<thread, section>> whose iterator had no items
    fs_registered,      \* <<thread, section>> passed to add_section, in order
    fs_proc_errors,     \* the sections whose playstate processing raised
    fs_enumerated,      \* <<thread, section>> in the order the loop reached them
    fs_processed,       \* the sections handed to playstate_per_section, in order
    fs_result           \* what self.callback was called with: <<>> before the
                        \* call, then <<flag>>

fsVars == <<fs_pc, fs_successful, fs_cancel, fs_section_queue, fs_cur, en_pc,
            en_i, scanner, fs_calls, fs_enum_errors, fs_empty, fs_registered,
            fs_proc_errors,
            fs_enumerated, fs_processed, fs_result, fetchers, applier, fs_removed>>

VARIABLES
    \* ---- ThreaderManager
    tm_index,           \* self.index
    tm_abandoned,       \* self.abandoned: the generations given up, in order
    tm_threader,        \* self.threader: the active generation
    \* ---- BackgroundThreader, per generation
    p_queue,            \* self._queue: the tasks in the order they are served
    p_abort,            \* self._abort
    p_workers,          \* len(self.workers), 0 before the generation exists
    \* ---- BackgroundWorker, per generation and worker
    pw_state,           \* the worker's thread: "none" (not alive), "start",
                        \* "loop", "got" (a task dequeued), "body" (in run())
    pw_task,            \* self._task
    pw_abort,           \* self._abort
    pw_working,         \* NonstoppingBackgroundWorker._working
    \* ---- Task
    tk_canceled,        \* the tasks with _canceled set
    tk_finished,        \* the tasks with finished set
    \* ---- the thread that calls ThreaderManager.shutdown()
    sd_pc,              \* "idle", "pool", "check", "cancel", "join", "done",
                        \* or "raised" when the call ended with an exception
    sd_k,               \* the generation it is at: 1 is self.threader, 1 + i
                        \* is self.abandoned[i]
    sd_w,               \* the worker it is at, a position in self.workers
    \* ---- history
    tk_next,            \* the next task to be handed in
    tk_pool,            \* per task, the generation it was queued on
    tk_runner,          \* per task, the generation whose worker called run()
    tm_resets           \* reset() calls so far

tmVars == <<tm_index, tm_abandoned, tm_threader, p_queue, p_abort, p_workers,
            pw_state,
            pw_task, pw_abort, pw_working, tk_canceled, tk_finished, sd_pc,
            sd_k, sd_w, tk_next, tk_pool, tk_runner, tm_resets>>

\* the parts of the state the queues, workers and threads do not touch
restVars == <<tsVars, fsVars, tmVars>>

ktVars == <<kt_canceled, kt_suspended, is_not_suspended, suspension_reached,
            is_not_asleep, suspension_timeout, stop_pkc, th_pc, th_timeout,
            c_pc, c_block, wake_cause, cancel_in_block, cancels_done,
            wws_after_cancel, wws_ret, timed_out>>

tqVars == <<tq, priority, prio, finished, wstate, wtask, cl_pc, cl_tasks, cl_p,
            cl_item, dequeued, plain, front_old, front_queued, front_new,
            front_clean, mtf, moved, moves>>

\* cancelling and aborting: touched by neither the queue nor the workers
abortVars == <<t_canceled, th_abort, w_abort, abortRequested, nonstopping,
               ab_i, resubmits, abort_calls>>
\* what running a task records
runVars == <<started, failed, w_failed>>
wkVars == <<abortVars, runVars, put_count>>

pqVars == <<maxsize, sections, queues, current_section, current_queue, counter,
            unfinished_tasks, secinfo, qitems, next_index, not_full_waiters,
            pstate, pitem, cstate, nsec, sentinel, arrival, delivered,
            from_queue, unacked, raised, unreg_calls>>

vars == <<pqVars, tqVars, wkVars, ktVars, restVars>>

\* ------------------------------------------------------------ sequences
Range(s) == {s[i] : i \in DOMAIN s}

RECURSIVE SumLen(_, _)
\* sum(q._qsize() for q in qs)
SumLen(qs, contents) ==
    IF qs = <<>> THEN 0
    ELSE Len(contents[Head(qs)]) + SumLen(Tail(qs), contents)

\* --------------------------------------------------------------- heapq
\* heapq works on a Python list in heap layout. Positions are 1-based here:
\* the parent of pos is pos \div 2, its children are 2*pos and 2*pos + 1.
\* key maps an element to the value the comparison looks at.
RECURSIVE SiftDown(_, _, _, _, _)
\* heapq._siftdown(heap, startpos, pos), newitem being the item that moves up
SiftDown(heap, startpos, pos, newitem, key) ==
    IF pos > startpos /\ key[newitem] < key[heap[pos \div 2]]
    THEN SiftDown([heap EXCEPT ![pos] = heap[pos \div 2]], startpos,
                  pos \div 2, newitem, key)
    ELSE [heap EXCEPT ![pos] = newitem]

RECURSIVE BubbleSmallerChildUp(_, _, _)
\* the while loop of heapq._siftup: returns <<heap, pos>>, pos being the leaf
\* position that is left free
BubbleSmallerChildUp(heap, pos, key) ==
    IF 2 * pos <= Len(heap)
    THEN LET left == 2 * pos
             right == left + 1
             child == IF right <= Len(heap) /\ ~(key[heap[left]] < key[heap[right]])
                      THEN right ELSE left
         IN  BubbleSmallerChildUp([heap EXCEPT ![pos] = heap[child]], child, key)
    ELSE <<heap, pos>>

\* heapq._siftup(heap, pos)
SiftUp(heap, pos, key) ==
    LET r == BubbleSmallerChildUp(heap, pos, key)
    IN  SiftDown(r[1], pos, r[2], heap[pos], key)

\* heapq.heappush(heap, item)
heappush(heap, item, key) ==
    SiftDown(Append(heap, item), 1, Len(heap) + 1, item, key)

\* heapq.heappop(heap): <<the heap afterwards, the item returned>>
heappop(heap, key) ==
    LET lastelt == heap[Len(heap)]
        rest == SubSeq(heap, 1, Len(heap) - 1)
    IN  IF rest = <<>> THEN <<rest, lastelt>>
        ELSE <<SiftUp([rest EXCEPT ![1] = lastelt], 1, key), heap[1]>>

\* ------------------------------------------------------------- the items
\* An item is the tuple (index, payload); the payload carries its section.
Payload(s, i) == [section |-> s, n |-> i]
Item(s, i) == <<i, Payload(s, i)>>
\* put_sentinel's item (None, None)
NonePayload == [section |-> None, n |-> None]
NoneItem == <<None, NonePayload>>
\* tuples compare by their first component, the index
IndexKey(heap, item) == [x \in Range(heap) \cup {item} |-> x[1]]

NoInfo == [ordered |-> FALSE, number_of_items |-> 0, failed_items |-> 0]

\* ----------------------------------------------------- ProcessingQueue
\* ProcessingQueue._qsize
qsize == IF current_queue # None THEN Len(qitems[current_queue]) ELSE 0

\* ProcessingQueue.total_size
total_size == IF queues # <<>> THEN SumLen(queues, qitems) ELSE 0

\* Faulty variant of Threshold: the comparison of _get is off by one.
ThresholdOffByOne(sec) == sec.number_of_items - sec.failed_items - 1

\* ProcessingQueue._get: the number of items a section hands out before the
\* queue moves on, number_of_items - failed_items
Threshold(sec) == sec.number_of_items - sec.failed_items

\* Faulty variant of SectionIndex: the for loop without its else branch, so
\* that the loop variable's last value is returned when no section matches.
SectionIndexNoRaise(secs, item) ==
    IF \E i \in DOMAIN secs : secs[i] = item[2].section
    THEN (CHOOSE i \in DOMAIN secs :
              /\ secs[i] = item[2].section
              /\ \A j \in DOMAIN secs : secs[j] = item[2].section => i <= j) - 1
    ELSE Len(secs) - 1

\* ProcessingQueue._put: the position in self._sections of the item's section,
\* None standing for the RuntimeError of the for/else
SectionIndex(secs, item) ==
    IF \E i \in DOMAIN secs : secs[i] = item[2].section
    THEN (CHOOSE i \in DOMAIN secs :
              /\ secs[i] = item[2].section
              /\ \A j \in DOMAIN secs : secs[j] = item[2].section => i <= j) - 1
    ELSE None

\* Queue.Queue._put (deque.append) and OrderedQueue._put (heappush)
SubQueuePut(ordered, q, item) ==
    IF ordered THEN heappush(q, item, IndexKey(q, item)) ELSE Append(q, item)

\* Faulty variant of MustWaitForNext: OrderedQueue._get without its wait loop.
MustWaitForNextNever(ordered, q, next) == FALSE

\* OrderedQueue._get: the loop condition self.queue[0][0] != self.next_index
MustWaitForNext(ordered, q, next) == ordered /\ q[1][1] # next

\* Faulty variant of SubQueueGet: the plain queue pops from the right.
SubQueueGetLifo(ordered, q) ==
    IF ordered THEN heappop(q, IndexKey(q, q[1]))
    ELSE <<SubSeq(q, 1, Len(q) - 1), q[Len(q)]>>

\* Queue.Queue._get (deque.popleft) and OrderedQueue._get (heappop):
\* <<the queue afterwards, the item>>
SubQueueGet(ordered, q) ==
    IF ordered THEN heappop(q, IndexKey(q, q[1])) ELSE <<Tail(q), Head(q)>>

\* ProcessingQueue._switch_queues: <<_current_section, _current_queue>>
SwitchQueues(secs, qs) ==
    <<IF secs # <<>> THEN Head(secs) ELSE None,
      IF qs # <<>> THEN Head(qs) ELSE None>>

\* ProcessingQueue._add_section: the new
\* <<_sections, _queues, _current_section, _current_queue>>
AddSectionResult(secs, qs, cs, cq, s) ==
    LET secs2 == Append(secs, s)
        qs2 == Append(qs, s)
    IN  IF cs = None
        THEN <<secs2, qs2>> \o SwitchQueues(secs2, qs2)
        ELSE <<secs2, qs2, cs, cq>>

\* Faulty variant of InitNextSection: _switch_queues is not called.
InitNextSectionNoSwitch(secs, qs, cs, cq) == <<Tail(secs), Tail(qs), cs, cq>>

\* ProcessingQueue._init_next_section: the new
\* <<_sections, _queues, _current_section, _current_queue>>
InitNextSection(secs, qs, cs, cq) ==
    <<Tail(secs), Tail(qs)>> \o SwitchQueues(Tail(secs), Tail(qs))

\* Condition.notify() on not_empty and on not_next_item: the consumer is the
\* only thread that waits on them
NotifyNotEmpty(c) == IF c = "wait_ne" THEN "woke_ne" ELSE c
NotifyNotNextItem(c) == IF c = "wait_next" THEN "woke_next" ELSE c

\* ---- what the producers may put: the items of a registered section, each
\* index once, and no more than the section's number_of_items - failed_items
ItemsToCome(sec) == sec.number_of_items - sec.failed_items
Started(s) == Range(arrival[s]) \cup
              {pitem[p][1] : p \in {x \in Producers : pitem[x][2].section = s}}
Regular == {s \in Range(sections) : s # sentinel}
CanPut(s, i) ==
    /\ s \in Regular
    /\ i \in 0..(secinfo[s].number_of_items - 1)
    /\ i \notin Started(s)
    /\ Cardinality(Started(s)) < ItemsToCome(secinfo[s])
CanPutUnregistered ==
    /\ unreg_calls < MaxErrors


\* ProcessingQueue.add_section(section), section being a new Section object
add_section(ordered, n, f) ==
    /\ nsec - (IF sentinel = None THEN 0 ELSE 1) < MaxSections
    /\ LET s == nsec + 1
           r == AddSectionResult(sections, queues, current_section,
                                 current_queue, s)
       IN  /\ nsec' = s
           /\ secinfo' = [secinfo EXCEPT ![s] =
                  [ordered |-> ordered, number_of_items |-> n, failed_items |-> f]]
           /\ sections' = r[1]
           /\ queues' = r[2]
           /\ current_section' = r[3]
           /\ current_queue' = r[4]
    /\ UNCHANGED <<maxsize, counter, unfinished_tasks, qitems, next_index,
                   not_full_waiters, pstate, pitem, cstate, sentinel, arrival,
                   delivered, from_queue, unacked, raised, unreg_calls>>

\* ProcessingQueue.put_sentinel(section), section being a new, empty Section
\* object (its plex_type is not the album type: it gets a plain Queue)
put_sentinel ==
    /\ sentinel = None
    /\ LET s == nsec + 1
           r == AddSectionResult(sections, queues, current_section,
                                 current_queue, s)
           last == r[2][Len(r[2])]
       IN  /\ nsec' = s
           /\ sentinel' = s
           /\ secinfo' = [secinfo EXCEPT ![s] =
                  [ordered |-> FALSE, number_of_items |-> 1, failed_items |-> 0]]
           /\ sections' = r[1]
           /\ queues' = r[2]
           /\ current_section' = r[3]
           /\ current_queue' = r[4]
           /\ qitems' = [qitems EXCEPT ![last] = Append(qitems[last], NoneItem)]
    /\ unfinished_tasks' = unfinished_tasks + 1
    /\ cstate' = IF unfinished_tasks' = 1 THEN NotifyNotEmpty(cstate) ELSE cstate
    /\ UNCHANGED <<maxsize, counter, next_index, not_full_waiters, pstate, pitem,
                   arrival, delivered, from_queue, unacked, raised, unreg_calls>>

\* put(), from index = self._put(item) on: the capacity wait is over
PutItem(p, item) ==
    LET i == SectionIndex(sections, item)
    IN  /\ pstate' = [pstate EXCEPT ![p] = "idle"]
        /\ pitem' = [pitem EXCEPT ![p] = NoneItem]
        /\ IF i = None
           THEN /\ raised' = Append(raised, item[2])
                /\ UNCHANGED <<qitems, unfinished_tasks, cstate, arrival>>
           ELSE LET q == queues[i + 1]
                    ordered == secinfo[q].ordered
                    c1 == IF ordered /\ item[1] = next_index[q] /\ current_queue = q
                          THEN NotifyNotNextItem(cstate) ELSE cstate
                IN  /\ qitems' = [qitems EXCEPT ![q] =
                                     SubQueuePut(ordered, qitems[q], item)]
                    /\ unfinished_tasks' = unfinished_tasks + 1
                    /\ cstate' = IF i = 0 THEN NotifyNotEmpty(c1) ELSE c1
                    /\ arrival' = [arrival EXCEPT ![q] = Append(arrival[q], item[1])]
                    /\ UNCHANGED raised
        /\ UNCHANGED <<maxsize, sections, queues, current_section, current_queue,
                       counter, secinfo, next_index, nsec, sentinel, delivered,
                       from_queue, unacked>>

\* put(), the blocking form: while self._qsize() == self.maxsize: wait
PutOrWait(p, item) ==
    IF maxsize > 0 /\ qsize = maxsize
    THEN /\ pstate' = [pstate EXCEPT ![p] = "wait"]
         /\ pitem' = [pitem EXCEPT ![p] = item]
         /\ not_full_waiters' = Append(not_full_waiters, p)
         /\ UNCHANGED <<maxsize, sections, queues, current_section, current_queue,
                        counter, unfinished_tasks, secinfo, qitems, next_index,
                        cstate, nsec, sentinel, arrival, delivered, from_queue,
                        unacked, raised>>
    ELSE /\ PutItem(p, item)
         /\ UNCHANGED not_full_waiters

\* a producer calls put((i, payload)) for an item of a registered section
put(p, s, i) ==
    /\ pstate[p] = "idle"
    /\ CanPut(s, i)
    /\ PutOrWait(p, Item(s, i))
    /\ UNCHANGED unreg_calls

\* a producer calls put() for an item whose section was never registered
put_unregistered(p) ==
    /\ pstate[p] = "idle"
    /\ CanPutUnregistered
    /\ PutOrWait(p, Item(NoSection, 0))
    /\ unreg_calls' = unreg_calls + 1

\* a producer returns from self.not_full.wait() and tests the loop again
put_wakeup(p) ==
    /\ pstate[p] = "ready"
    /\ PutOrWait(p, pitem[p])
    /\ UNCHANGED unreg_calls

\* ProcessingQueue._get and what follows it in get(): not_full.notify(), return
GetItem ==
    LET q == current_queue
        ordered == secinfo[q].ordered
    IN  IF MustWaitForNext(ordered, qitems[q], next_index[q])
        THEN /\ cstate' = "wait_next"
             /\ UNCHANGED <<sections, queues, current_section, current_queue,
                            counter, qitems, next_index, not_full_waiters,
                            pstate, delivered, from_queue, unacked>>
        ELSE LET r == SubQueueGet(ordered, qitems[q])
                 done == counter + 1 = Threshold(secinfo[current_section])
                 nxt == InitNextSection(sections, queues, current_section,
                                        current_queue)
             IN  /\ qitems' = [qitems EXCEPT ![q] = r[1]]
                 /\ next_index' = IF ordered
                                  THEN [next_index EXCEPT ![q] = @ + 1]
                                  ELSE next_index
                 /\ counter' = IF done THEN 0 ELSE counter + 1
                 /\ sections' = IF done THEN nxt[1] ELSE sections
                 /\ queues' = IF done THEN nxt[2] ELSE queues
                 /\ current_section' = IF done THEN nxt[3] ELSE current_section
                 /\ current_queue' = IF done THEN nxt[4] ELSE current_queue
                 /\ IF not_full_waiters # <<>>
                    THEN /\ pstate' = [pstate EXCEPT ![Head(not_full_waiters)] = "ready"]
                         /\ not_full_waiters' = Tail(not_full_waiters)
                    ELSE UNCHANGED <<pstate, not_full_waiters>>
                 /\ delivered' = Append(delivered, r[2][2])
                 /\ from_queue' = Append(from_queue, q)
                 /\ unacked' = unacked + 1
                 /\ cstate' = "idle"

\* get(), the blocking form: while not self._qsize(): self.not_empty.wait()
GetOrWait ==
    /\ IF qsize = 0
       THEN /\ cstate' = "wait_ne"
            /\ UNCHANGED <<sections, queues, current_section, current_queue,
                           counter, qitems, next_index, not_full_waiters,
                           pstate, delivered, from_queue, unacked>>
       ELSE GetItem
    /\ UNCHANGED <<maxsize, unfinished_tasks, secinfo, pitem, nsec, sentinel,
                   arrival, raised, unreg_calls>>

\* the consumer calls get()
get ==
    /\ cstate = "idle"
    /\ GetOrWait

\* the consumer returns from self.not_empty.wait() and tests the loop again
get_wakeup ==
    /\ cstate = "woke_ne"
    /\ GetOrWait

\* the consumer returns from not_next_item.wait() inside OrderedQueue._get
get_wakeup_next ==
    /\ cstate = "woke_next"
    /\ GetItem
    /\ UNCHANGED <<maxsize, unfinished_tasks, secinfo, pitem, nsec, sentinel,
                   arrival, raised, unreg_calls>>

\* the consumer calls task_done() for an item it got
task_done ==
    /\ cstate = "idle"
    /\ unacked > 0
    /\ unfinished_tasks' = unfinished_tasks - 1
    /\ unacked' = unacked - 1
    /\ UNCHANGED <<maxsize, sections, queues, current_section, current_queue, counter,
                   secinfo, qitems, next_index, not_full_waiters, pstate,
                   pitem, cstate, nsec, sentinel, arrival, delivered,
                   from_queue, raised, unreg_calls>>

\* =================================================================
\* MutablePriorityQueue, BackgroundThreader, BackgroundWorker
\* =================================================================
RECURSIVE InsertSorted(_, _, _)
\* x placed behind every element of the sorted list q that is not larger
InsertSorted(q, x, key) ==
    IF q = <<>> THEN <<x>>
    ELSE IF key[x] < key[q[Len(q)]]
         THEN Append(InsertSorted(SubSeq(q, 1, Len(q) - 1), x, key), q[Len(q)])
         ELSE Append(q, x)

RECURSIVE SortList(_, _)
\* list.sort(): stable, by Task.__cmp__, i.e. by priority
SortList(q, key) ==
    IF q = <<>> THEN <<>>
    ELSE InsertSorted(SortList(SubSeq(q, 1, Len(q) - 1), key), q[Len(q)], key)

\* Faulty variant of PriorityGet: PriorityQueue._get, which does not sort.
PriorityGetNoSort(q, key) == heappop(q, key)

\* Faulty variant of PriorityGet: the task returned stays in the queue.
PriorityGetPeek(q, key) == <<SortList(q, key), SortList(q, key)[1]>>

\* MutablePriorityQueue._get: self.queue.sort(), then heappop(self.queue):
\* <<the heap list afterwards, the task returned>>
PriorityGet(q, key) == heappop(SortList(q, key), key)

\* PriorityQueue._put: heappush(self.queue, item)
PriorityPut(q, t, key) == heappush(q, t, key)

RECURSIVE MinOfList(_, _)
\* min(self.queue): the first of the smallest elements
MinOfList(q, key) ==
    IF Len(q) = 1 THEN q[1]
    ELSE LET m == MinOfList(SubSeq(q, 1, Len(q) - 1), key)
         IN  IF key[q[Len(q)]] < key[m] THEN q[Len(q)] ELSE m

\* MutablePriorityQueue.lowest: self.queue and min(self.queue) or None
lowest(q, key) == IF q = <<>> THEN None ELSE MinOfList(q, key)

\* BackgroundThreader.moveToFront: lowest - 1
MoveToFrontPriority(low) == low - 1

\* Faulty variant of NextPriority: the counter is not advanced.
NextPriorityStuck(p) == p

\* BackgroundThreader._nextPriority: self.priority += 1
NextPriority(p) == p + 1

\* the tasks handed in so far are 1..Len(prio); the next ones follow
NewTasks(k) == [i \in 1..k |-> Len(prio) + i]


\* addTask(task) (k = 1) or addTasks(tasks) is called with new Task objects
addTasks(k) ==
    /\ cl_pc = "idle"
    /\ Len(prio) + k <= MaxTasks
    /\ cl_pc' = "addTasks"
    /\ cl_tasks' = NewTasks(k)
    /\ prio' = prio \o [i \in 1..k |-> 0]
    /\ UNCHANGED <<tq, priority, finished, wstate, wtask, cl_p, cl_item,
                   dequeued, plain, front_old, front_queued,
                   front_new, front_clean, mtf,
                   moved, moves>>
    /\ UNCHANGED wkVars

\* addTask / addTasks: t.priority = self._nextPriority(); self._queue.put(t)
addTasks_put ==
    /\ cl_pc = "addTasks"
    /\ LET t == Head(cl_tasks)
           key == [prio EXCEPT ![t] = NextPriority(priority)]
       IN  /\ priority' = NextPriority(priority)
           /\ prio' = key
           /\ tq' = PriorityPut(tq, t, key)
           /\ plain' = plain \cup {t}
    /\ cl_tasks' = Tail(cl_tasks)
    /\ cl_pc' = IF Tail(cl_tasks) = <<>> THEN "startWorkers" ELSE "addTasks"
    /\ UNCHANGED <<finished, wstate, wtask, cl_p, cl_item, dequeued,
                   front_old, front_queued,
                   front_new, front_clean, mtf, moved,
                   moves>>
    /\ put_count' = [put_count EXCEPT ![Head(cl_tasks)] = @ + 1]
    /\ UNCHANGED <<abortVars, runVars>>

\* addTasksToFront(tasks) is called with new Task objects: lowest =
\* self.getLowestPrority(); with an empty queue the call goes on as addTasks
addTasksToFront(k) ==
    /\ cl_pc = "idle"
    /\ Len(prio) + k <= MaxTasks
    /\ cl_tasks' = NewTasks(k)
    /\ prio' = prio \o [i \in 1..k |-> 0]
    /\ front_new' = NewTasks(k)
    /\ front_old' = Range(tq)
    /\ front_queued' = Range(tq)
    /\ front_clean' = TRUE
    /\ LET low == lowest(tq, prio)
       IN  IF low = None
           THEN cl_pc' = "addTasks" /\ UNCHANGED cl_p
           ELSE cl_pc' = "front" /\ cl_p' = prio[low] - k
    /\ UNCHANGED <<tq, priority, finished, wstate, wtask, cl_item, dequeued,
                   plain, mtf, moved,
                   moves>>
    /\ UNCHANGED wkVars

\* addTasksToFront: t.priority = p; self._queue.put(t); p += 1
addTasksToFront_put ==
    /\ cl_pc = "front"
    /\ LET t == Head(cl_tasks)
           key == [prio EXCEPT ![t] = cl_p]
       IN  /\ prio' = key
           /\ tq' = PriorityPut(tq, t, key)
    /\ cl_p' = cl_p + 1
    /\ cl_tasks' = Tail(cl_tasks)
    /\ cl_pc' = IF Tail(cl_tasks) = <<>> THEN "startWorkers" ELSE "front"
    /\ mtf' = None
    /\ front_queued' = IF cl_tasks = front_new
                       THEN front_old \cap Range(tq) ELSE front_queued
    /\ UNCHANGED <<priority, finished, wstate, wtask, cl_item, dequeued,
                   plain, front_old, front_new, front_clean, moved,
                   moves>>
    /\ put_count' = [put_count EXCEPT ![Head(cl_tasks)] = @ + 1]
    /\ UNCHANGED <<abortVars, runVars>>

\* startWorkers: w.start() for every worker; start() returns at once if the
\* worker's thread is alive
startWorkers ==
    /\ cl_pc = "startWorkers"
    /\ wstate' = [w \in Workers |->
                      IF wstate[w] = "none" THEN "start" ELSE wstate[w]]
    /\ cl_pc' = "idle"
    /\ UNCHANGED <<tq, priority, prio, finished, wtask, cl_tasks, cl_p,
                   cl_item, dequeued, plain, front_old, front_queued,
                   front_new,
                   front_clean, mtf, moved,
                   moves>>
    /\ UNCHANGED wkVars

\* moveToFront(qitem) is called for a task handed in before: lowest =
\* self.getLowestPrority(); if lowest is None: return
moveToFront(t) ==
    /\ cl_pc = "idle"
    /\ moves < MaxMoves
    /\ t \in DOMAIN prio
    /\ moves' = moves + 1
    /\ LET low == lowest(tq, prio)
       IN  IF low = None
           THEN UNCHANGED <<cl_pc, cl_p, cl_item>>
           ELSE /\ cl_pc' = "move"
                /\ cl_p' = MoveToFrontPriority(prio[low])
                /\ cl_item' = t
    /\ UNCHANGED <<tq, priority, prio, finished, wstate, wtask, cl_tasks,
                   dequeued, plain, front_old, front_queued,
                   front_new, front_clean, mtf,
                   moved>>
    /\ UNCHANGED wkVars

\* moveToFront: qitem.priority = lowest - 1
moveToFront_set ==
    /\ cl_pc = "move"
    /\ prio' = [prio EXCEPT ![cl_item] = cl_p]
    /\ cl_pc' = "idle"
    /\ cl_item' = None
    /\ plain' = plain \ {cl_item}
    /\ front_clean' = FALSE
    /\ mtf' = IF cl_item \in Range(tq) THEN cl_item ELSE None
    /\ moved' = IF cl_item \in Range(tq) THEN moved \cup {cl_item} ELSE moved
    /\ UNCHANGED <<tq, priority, finished, wstate, wtask, cl_tasks, cl_p,
                   dequeued, front_old, front_queued,
                   front_new, moves>>
    /\ UNCHANGED wkVars

\* BackgroundWorker.aborted: self._abort or xbmc.abortRequested
aborted(w) == w_abort[w] \/ abortRequested

\* the thread of the worker starts _queueLoop. BackgroundWorker: if
\* self._queue.empty(): return. NonstoppingBackgroundWorker: no such test
worker_begin(w) ==
    /\ wstate[w] = "start"
    /\ wstate' = [wstate EXCEPT ![w] =
                      IF ~nonstopping /\ tq = <<>> THEN "exiting" ELSE "loop"]
    /\ UNCHANGED <<tq, priority, prio, finished, wtask, cl_pc, cl_tasks, cl_p,
                   cl_item, dequeued, plain, front_old, front_queued,
                   front_new, front_clean, mtf, moved, moves>>
    /\ UNCHANGED wkVars

\* _queueLoop: while not self.aborted(): self._task =
\* self._queue.get_nowait(). Queue.Empty ends the loop of a BackgroundWorker;
\* a NonstoppingBackgroundWorker waits (waitForAbort(0.05)) and tries again
worker_get(w) ==
    /\ wstate[w] = "loop"
    /\ IF aborted(w)
       THEN /\ wstate' = [wstate EXCEPT ![w] = "exiting"]
            /\ UNCHANGED <<tq, wtask, dequeued, mtf>>
       ELSE IF tq = <<>>
       THEN /\ ~nonstopping
            /\ wstate' = [wstate EXCEPT ![w] = "exiting"]
            /\ UNCHANGED <<tq, wtask, dequeued, mtf>>
       ELSE LET r == PriorityGet(tq, prio)
            IN  /\ tq' = r[1]
                /\ wtask' = [wtask EXCEPT ![w] = r[2]]
                /\ dequeued' = Append(dequeued, r[2])
                /\ mtf' = IF mtf = r[2] THEN None ELSE mtf
                /\ wstate' = [wstate EXCEPT ![w] = "run"]
    /\ UNCHANGED <<priority, prio, finished, cl_pc, cl_tasks, cl_p, cl_item,
                   plain, front_old, front_queued, front_new, front_clean,
                   moved, moves>>
    /\ UNCHANGED wkVars

\* Faulty variant of NextAfterRunTask: the exception leaves the loop.
NextAfterRunTaskExitOnRaise(raises) == IF raises THEN "exiting" ELSE "loop"

\* _queueLoop after self._runTask(self._task): _runTask catches the
\* Exception of the task body, so the loop goes on either way
NextAfterRunTask(raises) == "loop"

\* BackgroundWorker._runTask: if task._canceled: return
RunTaskSkips(canceled) == canceled

\* _queueLoop: self._runTask(self._task) up to the call of task.run(); for a
\* cancelled task _runTask returns at once, and the loop goes on with
\* self._queue.task_done() and self._task = None
worker_run(w) ==
    /\ wstate[w] = "run"
    /\ IF RunTaskSkips(wtask[w] \in t_canceled)
       THEN /\ wtask' = [wtask EXCEPT ![w] = None]
            /\ wstate' = [wstate EXCEPT ![w] = "loop"]
            /\ UNCHANGED started
       ELSE /\ started' = [started EXCEPT ![wtask[w]] = @ + 1]
            /\ wstate' = [wstate EXCEPT ![w] = "body"]
            /\ UNCHANGED wtask
    /\ UNCHANGED <<tq, priority, prio, finished, cl_pc, cl_tasks, cl_p,
                   cl_item, dequeued, plain, front_old, front_queued,
                   front_new, front_clean, mtf, moved, moves>>
    /\ UNCHANGED <<abortVars, failed, w_failed, put_count>>

\* task.run() ends, by returning (Task._run then sets self.finished) or by
\* raising an Exception (_runTask logs it); then self._queue.task_done() and
\* self._task = None
worker_body(w, raises) ==
    /\ wstate[w] = "body"
    /\ raises => Cardinality(failed) < MaxRaises
    /\ finished' = IF raises THEN finished ELSE finished \cup {wtask[w]}
    /\ failed' = IF raises THEN failed \cup {wtask[w]} ELSE failed
    /\ w_failed' = IF raises THEN w_failed \cup {w} ELSE w_failed
    /\ wtask' = [wtask EXCEPT ![w] = None]
    /\ wstate' = [wstate EXCEPT ![w] = NextAfterRunTask(raises)]
    /\ UNCHANGED <<tq, priority, prio, cl_pc, cl_tasks, cl_p, cl_item,
                   dequeued, plain, front_old, front_queued, front_new,
                   front_clean, mtf, moved, moves>>
    /\ UNCHANGED <<abortVars, started, put_count>>


\* the worker's thread ends: isAlive() is false from here on
worker_exit(w) ==
    /\ wstate[w] = "exiting"
    /\ wstate' = [wstate EXCEPT ![w] = "none"]
    /\ UNCHANGED <<tq, priority, prio, finished, wtask, cl_pc, cl_tasks, cl_p,
                   cl_item, dequeued, plain, front_old, front_queued,
                   front_new,
                   front_clean, mtf, moved,
                   moves>>
    /\ UNCHANGED wkVars

\* Task.start() / addTask(task) is called again for a Task object that was
\* handed in before (queued, running or done)
resubmit(t) ==
    /\ cl_pc = "idle"
    /\ resubmits < MaxResubmits
    /\ t \in DOMAIN prio
    /\ resubmits' = resubmits + 1
    /\ cl_tasks' = <<t>>
    /\ cl_pc' = "addTasks"
    /\ UNCHANGED <<tq, priority, prio, finished, wstate, wtask, cl_p, cl_item,
                   dequeued, plain, front_old, front_queued, front_new,
                   front_clean, mtf, moved, moves>>
    /\ UNCHANGED <<t_canceled, th_abort, w_abort, abortRequested, nonstopping,
                   ab_i, abort_calls, runVars, put_count>>

\* Task.cancel(): self._canceled = True
task_cancel(t) ==
    /\ t \in DOMAIN prio
    /\ Cardinality(t_canceled) < MaxCancels
    /\ t \notin t_canceled
    /\ t_canceled' = t_canceled \cup {t}
    /\ UNCHANGED <<th_abort, w_abort, abortRequested, nonstopping, ab_i,
                   resubmits, abort_calls, runVars, put_count>>
    /\ UNCHANGED tqVars

\* Faulty variant of AbortWorker: the worker's flag is left as it is.
AbortWorkerKeepsFlag(flag) == flag

\* BackgroundWorker.abort: self._abort = True
AbortWorker(flag) == TRUE

\* BackgroundThreader.abort(): self._abort = True
abort ==
    /\ ab_i = 0
    /\ abort_calls < MaxAborts
    /\ abort_calls' = abort_calls + 1
    /\ th_abort' = TRUE
    /\ ab_i' = 1
    /\ UNCHANGED <<t_canceled, w_abort, abortRequested, nonstopping,
                   resubmits, runVars, put_count>>
    /\ UNCHANGED tqVars

\* BackgroundThreader.abort(): for w in self.workers: w.abort(); return self
abort_worker ==
    /\ ab_i > 0
    /\ w_abort' = [w_abort EXCEPT ![WorkerList[ab_i]] = AbortWorker(@)]
    /\ ab_i' = IF ab_i = Len(WorkerList) THEN 0 ELSE ab_i + 1
    /\ UNCHANGED <<t_canceled, th_abort, abortRequested, nonstopping,
                   resubmits, abort_calls, runVars, put_count>>
    /\ UNCHANGED tqVars

\* Kodi is about to shut down: xbmc.abortRequested becomes true
xbmc_abort ==
    /\ ~abortRequested
    /\ abortRequested' = TRUE
    /\ UNCHANGED <<t_canceled, th_abort, w_abort, nonstopping, ab_i,
                   resubmits, abort_calls, runVars, put_count>>
    /\ UNCHANGED tqVars

\* =================================================================
\* KillableThread
\* =================================================================
\* a timeout that is not None
SomeTimeout == 1

\* Faulty variant of ShouldCancel: the stop signal of the add-on is ignored.
ShouldCancelLocalOnly(canceled, stop) == canceled

\* KillableThread.should_cancel: self._canceled or app.APP.stop_pkc
ShouldCancel(canceled, stop) == canceled \/ stop

\* KillableThread.should_suspend
should_suspend == kt_suspended
\* KillableThread.is_suspended
is_suspended == suspension_reached
\* KillableThread.is_asleep
is_asleep == ~is_not_asleep

\* Faulty variant of Notified: Event.set() that wakes no waiter.
NotifiedNever(pc, waiting, woke) == pc

\* threading.Event.set(): a thread blocked in the Event's wait() is woken
\* (and returns, whatever becomes of the flag afterwards)
Notified(pc, waiting, woke) == IF pc = waiting THEN woke ELSE pc

\* the thread is blocked in an Event.wait()
Blocked(pc) == pc \in {"wws_wait", "sleep_wait"}

\* the history of a step that may have woken the thread
Woken(cause) ==
    /\ wake_cause' = IF th_pc' # th_pc THEN cause ELSE wake_cause
    /\ cancel_in_block' = IF th_pc' # th_pc THEN {} ELSE cancel_in_block

\* cancel(): self._canceled = True
cancel_1(c) ==
    /\ c_pc[c] = "idle"
    /\ kt_canceled' = TRUE
    /\ c_pc' = [c_pc EXCEPT ![c] = "cancel_2"]
    /\ cancel_in_block' = IF Blocked(th_pc) THEN cancel_in_block \cup {c}
                          ELSE cancel_in_block
    /\ UNCHANGED <<kt_suspended, is_not_suspended, suspension_reached,
                   is_not_asleep, suspension_timeout, stop_pkc, th_pc,
                   th_timeout, c_block, wake_cause, cancels_done,
                   wws_after_cancel, wws_ret, timed_out>>

\* cancel(): self._is_not_suspended.set()
cancel_2(c) ==
    /\ c_pc[c] = "cancel_2"
    /\ is_not_suspended' = TRUE
    /\ th_pc' = Notified(th_pc, "wws_wait", "wws_woke")
    /\ Woken("cancel")
    /\ c_pc' = [c_pc EXCEPT ![c] = "cancel_3"]
    /\ UNCHANGED <<kt_canceled, kt_suspended, suspension_reached,
                   is_not_asleep, suspension_timeout, stop_pkc, th_timeout,
                   c_block, cancels_done, wws_after_cancel, wws_ret,
                   timed_out>>

\* cancel(): self._is_not_asleep.set(), and the call returns
cancel_3(c) ==
    /\ c_pc[c] = "cancel_3"
    /\ is_not_asleep' = TRUE
    /\ th_pc' = Notified(th_pc, "sleep_wait", "sleep_woke")
    /\ Woken("cancel")
    /\ c_pc' = [c_pc EXCEPT ![c] = "idle"]
    /\ cancels_done' = IF cancels_done < 2 THEN cancels_done + 1 ELSE 2
    /\ UNCHANGED <<kt_canceled, kt_suspended, is_not_suspended,
                   suspension_reached, suspension_timeout, stop_pkc,
                   th_timeout, c_block, wws_after_cancel, wws_ret, timed_out>>

\* suspend(block, timeout): self.suspension_timeout = timeout
suspend_1(c, block, timeout) ==
    /\ c_pc[c] = "idle"
    /\ suspension_timeout' = timeout
    /\ c_block' = [c_block EXCEPT ![c] = block]
    /\ c_pc' = [c_pc EXCEPT ![c] = "suspend_2"]
    /\ timed_out' = FALSE
    /\ UNCHANGED <<kt_canceled, kt_suspended, is_not_suspended,
                   suspension_reached, is_not_asleep, stop_pkc, th_pc,
                   th_timeout, wake_cause, cancel_in_block, cancels_done,
                   wws_after_cancel, wws_ret>>

\* suspend(): self._suspended = True
suspend_2(c) ==
    /\ c_pc[c] = "suspend_2"
    /\ kt_suspended' = TRUE
    /\ c_pc' = [c_pc EXCEPT ![c] = "suspend_3"]
    /\ timed_out' = FALSE
    /\ UNCHANGED <<kt_canceled, is_not_suspended, suspension_reached,
                   is_not_asleep, suspension_timeout, stop_pkc, th_pc,
                   th_timeout, c_block, wake_cause, cancel_in_block,
                   cancels_done, wws_after_cancel, wws_ret>>

\* suspend(): self._is_not_suspended.clear()
suspend_3(c) ==
    /\ c_pc[c] = "suspend_3"
    /\ is_not_suspended' = FALSE
    /\ c_pc' = [c_pc EXCEPT ![c] = "suspend_4"]
    /\ timed_out' = FALSE
    /\ UNCHANGED <<kt_canceled, kt_suspended, suspension_reached,
                   is_not_asleep, suspension_timeout, stop_pkc, th_pc,
                   th_timeout, c_block, wake_cause, cancel_in_block,
                   cancels_done, wws_after_cancel, wws_ret>>

\* suspend(): self._is_not_asleep.set(); without block the call returns
suspend_4(c) ==
    /\ c_pc[c] = "suspend_4"
    /\ is_not_asleep' = TRUE
    /\ th_pc' = Notified(th_pc, "sleep_wait", "sleep_woke")
    /\ Woken("suspend")
    /\ c_pc' = [c_pc EXCEPT ![c] = IF c_block[c] THEN "suspend_5" ELSE "idle"]
    /\ c_block' = [c_block EXCEPT ![c] = FALSE]
    /\ timed_out' = FALSE
    /\ UNCHANGED <<kt_canceled, kt_suspended, is_not_suspended,
                   suspension_reached, suspension_timeout, stop_pkc,
                   th_timeout, cancels_done, wws_after_cancel, wws_ret>>

\* suspend(block=True): self._suspension_reached.wait(), which returns at
\* once if the Event is set and blocks otherwise
suspend_5(c) ==
    /\ c_pc[c] = "suspend_5"
    /\ c_pc' = [c_pc EXCEPT ![c] =
                    IF suspension_reached THEN "idle" ELSE "suspend_wait"]
    /\ timed_out' = FALSE
    /\ UNCHANGED <<kt_canceled, kt_suspended, is_not_suspended,
                   suspension_reached, is_not_asleep, suspension_timeout,
                   stop_pkc, th_pc, th_timeout, c_block, wake_cause,
                   cancel_in_block, cancels_done, wws_after_cancel, wws_ret>>

\* resume(): self._suspended = False
resume_1(c) ==
    /\ c_pc[c] = "idle"
    /\ kt_suspended' = FALSE
    /\ c_pc' = [c_pc EXCEPT ![c] = "resume_2"]
    /\ UNCHANGED <<kt_canceled, is_not_suspended, suspension_reached,
                   is_not_asleep, suspension_timeout, stop_pkc, th_pc,
                   th_timeout, c_block, wake_cause, cancel_in_block,
                   cancels_done, wws_after_cancel, wws_ret, timed_out>>

\* resume(): self._is_not_suspended.set()
resume_2(c) ==
    /\ c_pc[c] = "resume_2"
    /\ is_not_suspended' = TRUE
    /\ th_pc' = Notified(th_pc, "wws_wait", "wws_woke")
    /\ Woken("resume")
    /\ c_pc' = [c_pc EXCEPT ![c] = "resume_3"]
    /\ UNCHANGED <<kt_canceled, kt_suspended, suspension_reached,
                   is_not_asleep, suspension_timeout, stop_pkc, th_timeout,
                   c_block, cancels_done, wws_after_cancel, wws_ret,
                   timed_out>>

\* resume(): self._is_not_asleep.set(), and the call returns
resume_3(c) ==
    /\ c_pc[c] = "resume_3"
    /\ is_not_asleep' = TRUE
    /\ th_pc' = Notified(th_pc, "sleep_wait", "sleep_woke")
    /\ Woken("resume")
    /\ c_pc' = [c_pc EXCEPT ![c] = "idle"]
    /\ UNCHANGED <<kt_canceled, kt_suspended, is_not_suspended,
                   suspension_reached, suspension_timeout, stop_pkc,
                   th_timeout, c_block, cancels_done, wws_after_cancel,
                   wws_ret, timed_out>>

\* the add-on is told to stop: app.APP.stop_pkc becomes true
set_stop_pkc ==
    /\ ~stop_pkc
    /\ stop_pkc' = TRUE
    /\ UNCHANGED <<kt_canceled, kt_suspended, is_not_suspended,
                   suspension_reached, is_not_asleep, suspension_timeout,
                   th_pc, th_timeout, c_pc, c_block, wake_cause,
                   cancel_in_block, cancels_done, wws_after_cancel, wws_ret,
                   timed_out>>

\* wait_while_suspended(): self._suspension_reached.set(), which wakes the
\* callers of suspend(block=True)
wws_1 ==
    /\ th_pc = "run"
    /\ suspension_reached' = TRUE
    /\ c_pc' = [c \in Controllers |->
                    IF c_pc[c] = "suspend_wait" THEN "idle" ELSE c_pc[c]]
    /\ th_pc' = "wws_entered"
    /\ wws_after_cancel' = (cancels_done > 0)
    /\ UNCHANGED <<kt_canceled, kt_suspended, is_not_suspended, is_not_asleep,
                   suspension_timeout, stop_pkc, th_timeout, c_block,
                   wake_cause, cancel_in_block, cancels_done, wws_ret,
                   timed_out>>

\* wait_while_suspended(): self._is_not_suspended.wait(self.suspension_timeout)
wws_2 ==
    /\ th_pc = "wws_entered"
    /\ IF is_not_suspended
       THEN th_pc' = "wws_woke" /\ wake_cause' = "flag" /\ UNCHANGED th_timeout
       ELSE /\ th_pc' = "wws_wait"
            /\ th_timeout' = suspension_timeout
            /\ UNCHANGED wake_cause
    /\ cancel_in_block' = {}
    /\ UNCHANGED <<kt_canceled, kt_suspended, is_not_suspended,
                   suspension_reached, is_not_asleep, suspension_timeout,
                   stop_pkc, c_pc, c_block, cancels_done, wws_after_cancel,
                   wws_ret, timed_out>>

\* the timeout of the wait the thread is blocked in elapses
wait_timeout ==
    /\ Blocked(th_pc)
    /\ th_timeout # None
    /\ th_pc' = IF th_pc = "wws_wait" THEN "wws_woke" ELSE "sleep_woke"
    /\ wake_cause' = "timeout"
    /\ cancel_in_block' = {}
    /\ UNCHANGED <<kt_canceled, kt_suspended, is_not_suspended,
                   suspension_reached, is_not_asleep, suspension_timeout,
                   stop_pkc, th_timeout, c_pc, c_block, cancels_done,
                   wws_after_cancel, wws_ret, timed_out>>

\* wait_while_suspended(): self._suspension_reached.clear()
wws_3 ==
    /\ th_pc = "wws_woke"
    /\ suspension_reached' = FALSE
    /\ th_pc' = "wws_ret"
    /\ UNCHANGED <<kt_canceled, kt_suspended, is_not_suspended, is_not_asleep,
                   suspension_timeout, stop_pkc, th_timeout, c_pc, c_block,
                   wake_cause, cancel_in_block, cancels_done,
                   wws_after_cancel, wws_ret, timed_out>>

\* wait_while_suspended(): return self.should_cancel()
wws_4 ==
    /\ th_pc = "wws_ret"
    /\ wws_ret' = ShouldCancel(kt_canceled, stop_pkc)
    /\ th_pc' = "run"
    /\ timed_out' = (wake_cause = "timeout")
    /\ UNCHANGED <<kt_canceled, kt_suspended, is_not_suspended,
                   suspension_reached, is_not_asleep, suspension_timeout,
                   stop_pkc, th_timeout, c_pc, c_block, wake_cause,
                   cancel_in_block, cancels_done, wws_after_cancel>>

\* sleep(timeout): self._is_not_asleep.clear()
sleep_1 ==
    /\ th_pc = "run"
    /\ is_not_asleep' = FALSE
    /\ th_pc' = "sleep_entered"
    /\ UNCHANGED <<kt_canceled, kt_suspended, is_not_suspended,
                   suspension_reached, suspension_timeout, stop_pkc,
                   th_timeout, c_pc, c_block, wake_cause, cancel_in_block,
                   cancels_done, wws_after_cancel, wws_ret, timed_out>>

\* sleep(timeout): self._is_not_asleep.wait(timeout)
sleep_2 ==
    /\ th_pc = "sleep_entered"
    /\ IF is_not_asleep
       THEN th_pc' = "sleep_woke" /\ wake_cause' = "flag" /\ UNCHANGED th_timeout
       ELSE /\ th_pc' = "sleep_wait"
            /\ th_timeout' = SomeTimeout
            /\ UNCHANGED wake_cause
    /\ cancel_in_block' = {}
    /\ UNCHANGED <<kt_canceled, kt_suspended, is_not_suspended,
                   suspension_reached, is_not_asleep, suspension_timeout,
                   stop_pkc, c_pc, c_block, cancels_done, wws_after_cancel,
                   wws_ret, timed_out>>

\* sleep(timeout): self._is_not_asleep.set(), and the call returns
sleep_3 ==
    /\ th_pc = "sleep_woke"
    /\ is_not_asleep' = TRUE
    /\ th_pc' = "run"
    /\ UNCHANGED <<kt_canceled, kt_suspended, is_not_suspended,
                   suspension_reached, suspension_timeout, stop_pkc,
                   th_timeout, c_pc, c_block, wake_cause, cancel_in_block,
                   cancels_done, wws_after_cancel, wws_ret, timed_out>>

\* =================================================================
\* Tasks (task group)
\* =================================================================
\* Task.isValid: not self.finished and not self._canceled
isValid(t) == ~t.finished /\ ~t.canceled

\* Task.__cmp__ as list.remove uses it: a member is the one looked for when
\* it is the same object or compares equal, which is having the same priority
SameTask(a, b) == a = b \/ a.priority = b.priority

\* list.remove(t): the list without its first member equal to t
RECURSIVE ListRemove(_, _)
ListRemove(l, t) ==
    IF l = <<>> THEN <<>>
    ELSE IF SameTask(Head(l), t) THEN Tail(l)
    ELSE <<Head(l)>> \o ListRemove(Tail(l), t)

\* the list iterator of "for t in self": it goes on to the next position,
\* whether or not the list has become shorter
NextIndex(i, removed) == i + 1

\* Tasks.add, the loop "for t in self: if not t.isValid(): self.remove(t)"
\* from position i on
RECURSIVE RemoveInvalid(_, _)
RemoveInvalid(l, i) ==
    IF i > Len(l) THEN l
    ELSE IF ~isValid(l[i])
         THEN RemoveInvalid(ListRemove(l, l[i]), NextIndex(i, TRUE))
         ELSE RemoveInvalid(l, NextIndex(i, FALSE))

\* the Task objects a group of n members can hold: member i has id i
TaskRecords(i) ==
    [id : {i}, priority : 0..MaxGroupPriority, finished : BOOLEAN,
     canceled : BOOLEAN]

\* the task groups of at most n members
Groups(n) ==
    UNION {{l \in [1..k -> UNION {TaskRecords(i) : i \in 1..k}] :
               \A i \in 1..k : l[i].id = i} : k \in 0..n}

\* a new, valid Task
NewTask(i, p) == [id |-> i, priority |-> p, finished |-> FALSE,
                  canceled |-> FALSE]

\* Tasks.add(task), task being one Task (as_list FALSE) or a list of Tasks
Tasks_add(as_list, p) ==
    /\ ts_pc = "idle"
    /\ ts_before' = ts_list
    /\ ts_arg' = IF as_list
                 THEN <<NewTask(MaxGroup + 1, p), NewTask(MaxGroup + 2, p)>>
                 ELSE <<NewTask(MaxGroup + 1, p)>>
    /\ ts_list' = RemoveInvalid(ts_list, 1) \o ts_arg'
    /\ ts_pc' = "done"

\* =================================================================
\* FullSync (the sync orchestrator)
\* =================================================================
\* Queue.Queue(): maxsize of self.section_queue; Queue.Queue takes a maxsize
\* <= 0 as "no limit"
SectionQueueMaxsize == 0

\* Queue.put blocks while the queue is full, which a queue with maxsize <= 0
\* never is
QueueFull(size, n) == size > 0 /\ n >= size

\* the FullSync thread goes to pc; what the other threads own is unchanged
FsGoto(pc) ==
    /\ fs_pc' = pc
    /\ UNCHANGED <<fs_cancel, fs_enum_errors, fs_empty,
                   fs_registered, fs_enumerated, en_i>>

\* run_full_library_sync up to full_library_sync: sync_from_pms, the tests of
\* should_cancel; full_library_sync and processing_loop_new_and_changed_items
\* then start the first threaded_get_iterators thread, the scanner thread
\* and the process thread
fs_begin(pms_ok) ==
    /\ fs_pc = "run"
    /\ IF fs_cancel \/ ~pms_ok
       THEN /\ FsGoto("finally")
            /\ UNCHANGED <<fs_successful, en_pc, scanner, applier>>
       ELSE /\ FsGoto("stage1")
            /\ en_pc' = [en_pc EXCEPT ![1] = "check"]
            /\ scanner' = "run"
            /\ applier' = "run"
            /\ UNCHANGED fs_successful
    /\ UNCHANGED <<fs_section_queue, fs_cur, fs_calls, fs_proc_errors,
                   fs_processed, fs_result, fetchers, fs_removed>>

\* run_full_library_sync: the second test of should_cancel, made when
\* should_cancel has become true during sync_from_pms
fs_begin_canceled ==
    /\ fs_pc = "run"
    /\ fs_cancel
    /\ fs_successful' = FALSE
    /\ FsGoto("finally")
    /\ UNCHANGED <<en_pc, scanner, fs_section_queue, fs_cur, fs_calls,
                   fs_proc_errors, fs_processed, fs_result, fetchers, applier, fs_removed>>

\* the FillMetadataQueue thread takes the next section off the section queue
\* and ends on None, or when the sync is cancelled
scanner_step ==
    /\ scanner = "run"
    /\ IF fs_cancel
       THEN scanner' = "ended" /\ UNCHANGED fs_section_queue
       ELSE /\ fs_section_queue # <<>>
            /\ fs_section_queue' = Tail(fs_section_queue)
            /\ scanner' = IF Head(fs_section_queue) = None THEN "ended"
                          ELSE "run"
    /\ UNCHANGED <<fs_pc, fs_successful, fs_cancel, fs_cur, en_pc, en_i,
                   fs_calls, fs_enum_errors, fs_empty,
                   fs_registered, fs_proc_errors, fs_enumerated,
                   fs_processed, fs_result, fetchers, applier, fs_removed>>

\* a GetMetadataThread puts the (index, payload) of an item of a registered
\* section on the delivery queue, or ends: when the scanner has ended (the
\* fetch queue is at its end) or when the sync is cancelled
fetch_step(f, puts) ==
    /\ fetchers[f] = "run"
    /\ IF puts
       THEN /\ scanner # "off"
            /\ "add_section" \in Range(fs_calls)
            /\ Len(SelectSeq(fs_calls, LAMBDA c : c = "put")) < MaxFetches
            /\ fs_calls' = Append(fs_calls, "put")
            /\ UNCHANGED fetchers
       ELSE /\ scanner = "ended" \/ fs_cancel
            /\ fetchers' = [fetchers EXCEPT ![f] = "ended"]
            /\ UNCHANGED fs_calls
    /\ UNCHANGED <<fs_pc, fs_successful, fs_cancel, fs_section_queue, fs_cur,
                   en_pc, en_i, scanner, fs_enum_errors, fs_empty,
                   fs_registered, fs_proc_errors,
                   fs_enumerated, fs_processed, fs_result, applier, fs_removed>>

\* the ProcessMetadataThread ends: it has received the sentinel, or the sync
\* is cancelled
applier_end ==
    /\ applier = "run"
    /\ "put_sentinel" \in Range(fs_calls) \/ fs_cancel
    /\ applier' = "ended"
    /\ UNCHANGED <<fs_pc, fs_successful, fs_cancel, fs_section_queue, fs_cur,
                   en_pc, en_i, scanner, fs_calls, fs_enum_errors, fs_empty,
                   fs_registered,
                   fs_proc_errors, fs_enumerated, fs_processed, fs_result,
                   fetchers, fs_removed>>

\* Faulty variant of ThreadsJoined: only the scanner thread is joined.
ScannerJoined == scanner = "ended"

\* processing_loop_new_and_changed_items: scanner_thread.join() and
\* t.join() for every t of self.threads have returned
ThreadsJoined ==
    scanner = "ended" /\ \A f \in Producers : fetchers[f] = "ended"

\* processing_loop_new_and_changed_items: scanner_thread.join(), the joins of
\* self.threads, then self.processing_queue.put_sentinel(sections.Section())
fs_put_sentinel ==
    /\ fs_pc = "stage1"
    /\ ThreadsJoined
    /\ fs_calls' = Append(fs_calls, "put_sentinel")
    /\ FsGoto("join_process")
    /\ UNCHANGED <<fs_successful, en_pc, scanner, fs_section_queue, fs_cur,
                   fs_proc_errors, fs_processed, fs_result, fetchers, applier, fs_removed>>

\* processing_loop_new_and_changed_items: process_thread.join() and
\* self.successful = process_thread.successful; full_library_sync: return if
\* should_cancel() or not self.successful, or if the playlist sync failed;
\* otherwise start the second threaded_get_iterators thread
fs_after_items(process_ok, playlists_ok) ==
    /\ fs_pc = "join_process"
    /\ applier = "ended"
    /\ fs_successful' = process_ok
    /\ IF fs_cancel \/ ~process_ok \/ ~playlists_ok
       THEN FsGoto("finally") /\ UNCHANGED en_pc
       ELSE FsGoto("ps_loop") /\ en_pc' = [en_pc EXCEPT ![2] = "check"]
    /\ UNCHANGED <<scanner, fs_section_queue, fs_cur, fs_calls,
                   fs_proc_errors, fs_processed, fs_result, fetchers, applier, fs_removed>>

\* processing_loop_playstates: the test of should_cancel, section_queue.get()
\* (which waits for a section), task_done, break on None
fs_playstates_get ==
    /\ fs_pc = "ps_loop"
    /\ IF fs_cancel
       THEN FsGoto("after_ps") /\ UNCHANGED <<fs_section_queue, fs_cur>>
       ELSE /\ fs_section_queue # <<>>
            /\ fs_section_queue' = Tail(fs_section_queue)
            /\ fs_cur' = Head(fs_section_queue)
            /\ FsGoto(IF Head(fs_section_queue) = None THEN "after_ps"
                      ELSE "ps_section")
    /\ UNCHANGED <<fs_successful, en_pc, scanner, fs_calls, fs_proc_errors,
                   fs_processed, fs_result, fetchers, applier, fs_removed>>

\* Faulty variant of AfterPlaystate: the loop over the sections ends with the
\* first section whose processing raised.
AfterPlaystateStopOnError(raises) == IF raises THEN "after_ps" ELSE "ps_loop"

\* processing_loop_playstates after playstate_per_section(section) returned:
\* the RuntimeError was caught inside, the loop goes on
AfterPlaystate(raises) == "ps_loop"

\* playstate_per_section(section): the items are processed, or a RuntimeError
\* is caught and self.successful set to False
fs_playstate_per_section(raises) ==
    /\ fs_pc = "ps_section"
    /\ fs_processed' = Append(fs_processed, fs_cur)
    /\ fs_successful' = IF raises THEN FALSE ELSE fs_successful
    /\ fs_proc_errors' = IF raises THEN fs_proc_errors \cup {fs_cur}
                         ELSE fs_proc_errors
    /\ FsGoto(AfterPlaystate(raises))
    /\ UNCHANGED <<en_pc, scanner, fs_section_queue, fs_cur, fs_calls,
                   fs_result, fetchers, applier, fs_removed>>

\* Faulty variant of DeleteAllowed: the success flag is not looked at.
DeleteAllowedIgnoringFlag(cancel, successful) == ~cancel

\* full_library_sync: `if self.should_cancel() or not self.successful:
\* return` in front of the deletion stage
DeleteAllowed(cancel, successful) == ~(cancel \/ ~successful)

\* full_library_sync after processing_loop_playstates: return if
\* should_cancel() or not self.successful, else delete what is gone
fs_after_playstates ==
    /\ fs_pc = "after_ps"
    /\ FsGoto(IF DeleteAllowed(fs_cancel, fs_successful) THEN "delete"
              ELSE "finally")
    /\ UNCHANGED <<fs_successful, en_pc, scanner, fs_section_queue, fs_cur,
                   fs_calls, fs_proc_errors, fs_processed, fs_result, fetchers, applier, fs_removed>>

\* full_library_sync, the deletion stage: for the next plex_id that was not
\* seen in this sync, `if self.should_cancel(): return`, then
\* ctx.remove(plex_id, plex_type); the stage ends when no such item is left
fs_delete(more) ==
    /\ \/ /\ fs_pc = "delete"
          /\ FsGoto(IF ~more \/ fs_removed = MaxDeletes \/ fs_cancel
                    THEN "finally" ELSE "remove")
          /\ UNCHANGED fs_removed
       \/ /\ fs_pc = "remove"
          /\ more
          /\ fs_removed' = fs_removed + 1
          /\ FsGoto("delete")
    /\ UNCHANGED <<fs_successful, en_pc, scanner, fs_section_queue, fs_cur,
                   fs_calls, fs_proc_errors, fs_processed, fs_result,
                   fetchers, applier>>

\* Faulty variant of fs_exception: no finally clause, the exception ends the
\* run at once.
fs_exception_escapes ==
    /\ \/ fs_pc \in {"run", "ps_section", "delete", "remove"}
       \/ fs_pc = "join_process" /\ applier = "ended"
    /\ FsGoto("done")
    /\ UNCHANGED <<fs_successful, en_pc, scanner, fs_section_queue, fs_cur,
                   fs_calls, fs_proc_errors, fs_processed, fs_result,
                   fetchers, applier, fs_removed>>

\* an exception propagates out of the try block of run_full_library_sync:
\* from sections.sync_from_pms, from what follows the first stage
\* (update_kodi_library, playlists.full_sync), from playstate_per_section
\* (anything but RuntimeError) or from the deletion stage; the finally
\* clause runs next
fs_exception ==
    /\ \/ fs_pc \in {"run", "ps_section", "delete", "remove"}
       \/ fs_pc = "join_process" /\ applier = "ended"
    /\ FsGoto("finally")
    /\ UNCHANGED <<fs_successful, en_pc, scanner, fs_section_queue, fs_cur,
                   fs_calls, fs_proc_errors, fs_processed, fs_result,
                   fetchers, applier, fs_removed>>

\* run_full_library_sync, finally: self.callback(self.successful)
fs_callback ==
    /\ fs_pc = "finally"
    /\ fs_result' = <<fs_successful>>
    /\ FsGoto("done")
    /\ UNCHANGED <<fs_successful, en_pc, scanner, fs_section_queue, fs_cur,
                   fs_calls, fs_proc_errors, fs_processed, fetchers, applier, fs_removed>>

\* the thread of threaded_get_iterators goes to pc, on to section i
EnGoto(e, pc, i) ==
    /\ en_pc' = [en_pc EXCEPT ![e] = pc]
    /\ en_i' = [en_i EXCEPT ![e] = i]
    /\ UNCHANGED <<fs_pc, fs_successful, fs_cancel, fs_cur, scanner,
                   fs_proc_errors, fs_processed, fs_result, fetchers, applier, fs_removed>>

\* threaded_get_iterators: the head of the loop over the sections, the test
\* of should_cancel and of section.sync_to_kodi
en_check(e, sync_to_kodi) ==
    /\ en_pc[e] = "check"
    /\ IF en_i[e] > MaxCatalog \/ fs_cancel
       THEN EnGoto(e, "finally", en_i[e]) /\ UNCHANGED fs_enumerated
       ELSE /\ fs_enumerated' = Append(fs_enumerated, <<e, en_i[e]>>)
            /\ IF sync_to_kodi THEN EnGoto(e, "iter", en_i[e])
               ELSE EnGoto(e, "check", en_i[e] + 1)
    /\ UNCHANGED <<fs_section_queue, fs_calls, fs_enum_errors, fs_empty,
                   fs_registered>>

\* Faulty variant of AfterIteratorError: the enumeration ends with the first
\* section whose iterator could not be had.
AfterIteratorErrorStop(i) == <<"finally", i>>

\* threaded_get_iterators, except RuntimeError: the error is logged and the
\* loop goes on with the next section
AfterIteratorError(i) == <<"check", i + 1>>

\* Faulty variant of HasItems: a section is handed on whatever its number
\* of items.
HasItemsOrNone(number_of_items) == number_of_items >= 0

\* threaded_get_iterators: if section.number_of_items > 0
HasItems(number_of_items) == number_of_items > 0

\* threaded_get_iterators: PF.get_section_iterator raises RuntimeError, or
\* returns an iterator with total items
en_iter(e, raises, total) ==
    /\ en_pc[e] = "iter"
    /\ IF raises
       THEN /\ fs_enum_errors' = fs_enum_errors \cup {<<e, en_i[e]>>}
            /\ EnGoto(e, AfterIteratorError(en_i[e])[1],
                      AfterIteratorError(en_i[e])[2])
            /\ UNCHANGED fs_empty
       ELSE /\ UNCHANGED fs_enum_errors
            /\ fs_empty' = IF total = 0 THEN fs_empty \cup {<<e, en_i[e]>>}
                           ELSE fs_empty
            /\ IF HasItems(total) THEN EnGoto(e, "add", en_i[e])
               ELSE EnGoto(e, "check", en_i[e] + 1)
    /\ UNCHANGED <<fs_section_queue, fs_calls, fs_enumerated, fs_registered>>

\* Faulty variant of en_unexpected: the thread ends without the finally
\* clause, no None is put.
en_unexpected_lost(e) ==
    /\ en_pc[e] \in {"iter", "add"}
    /\ EnGoto(e, "ended", en_i[e])
    /\ UNCHANGED <<fs_section_queue, fs_calls, fs_enum_errors, fs_empty,
                   fs_registered, fs_enumerated>>

\* threaded_get_iterators, except Exception: an exception other than the
\* RuntimeError of get_section_iterator is raised inside the loop, is logged
\* and ends the loop; the finally clause follows
en_unexpected(e) ==
    /\ en_pc[e] \in {"iter", "add"}
    /\ EnGoto(e, "finally", en_i[e])
    /\ UNCHANGED <<fs_section_queue, fs_calls, fs_enum_errors, fs_empty,
                   fs_registered, fs_enumerated>>

\* threaded_get_iterators: self.processing_queue.add_section(section)
en_add(e) ==
    /\ en_pc[e] = "add"
    /\ fs_calls' = Append(fs_calls, "add_section")
    /\ fs_registered' = Append(fs_registered, <<e, en_i[e]>>)
    /\ EnGoto(e, "put", en_i[e])
    /\ UNCHANGED <<fs_section_queue, fs_enum_errors, fs_empty, fs_enumerated>>

\* threaded_get_iterators: queue.put(section)
en_put(e) ==
    /\ en_pc[e] = "put"
    /\ ~QueueFull(SectionQueueMaxsize, Len(fs_section_queue))
    /\ fs_section_queue' = Append(fs_section_queue, en_i[e])
    /\ EnGoto(e, "check", en_i[e] + 1)
    /\ UNCHANGED <<fs_calls, fs_enum_errors, fs_empty,
                   fs_registered, fs_enumerated>>

\* threaded_get_iterators, finally: queue.put(None)
en_finally(e) ==
    /\ en_pc[e] = "finally"
    /\ ~QueueFull(SectionQueueMaxsize, Len(fs_section_queue))
    /\ fs_section_queue' = Append(fs_section_queue, None)
    /\ EnGoto(e, "ended", en_i[e])
    /\ UNCHANGED <<fs_calls, fs_enum_errors, fs_empty,
                   fs_registered, fs_enumerated>>

\* the sync is cancelled: should_cancel() is true from now on
fs_request_cancel ==
    /\ ~fs_cancel
    /\ fs_pc # "done"
    /\ fs_cancel' = TRUE
    /\ UNCHANGED <<fs_pc, fs_successful, fs_section_queue, fs_cur, en_pc,
                   en_i, scanner, fs_calls, fs_enum_errors, fs_empty,
                   fs_registered, fs_proc_errors,
                   fs_enumerated, fs_processed, fs_result, fetchers, applier, fs_removed>>

\* =================================================================
\* ThreaderManager and the generations of BackgroundThreader
\* =================================================================
\* BackgroundThreader.__init__: worker_count=6
DefaultWorkerCount == 6

\* the workers of generation g whose threads are followed: the first ones of
\* self.workers
Followed(g) ==
    {WorkerList[k] : k \in {j \in 1..Len(WorkerList) : j <= p_workers[g]}}

\* BackgroundWorker.aborted of worker w of generation g
PoolWorkerAborted(g, w) == pw_abort[<<g, w>>] \/ abortRequested

\* BackgroundWorker.working (the thread is alive) and
\* NonstoppingBackgroundWorker.working (self._working)
WorkerWorking(g, w) ==
    IF nonstopping THEN pw_working[<<g, w>>] ELSE pw_state[<<g, w>>] # "none"

\* BackgroundThreader.hasTask
hasTask(g) == \E w \in Workers : WorkerWorking(g, w)

\* BackgroundThreader.working
working(g) == p_queue[g] # <<>> \/ hasTask(g)

\* BackgroundThreader.abort applied to generation g
AbortPool(g) ==
    /\ p_abort' = [p_abort EXCEPT ![g] = TRUE]
    /\ pw_abort' = [x \in Gens \X Workers |->
                        IF x[1] = g THEN TRUE ELSE pw_abort[x]]

\* Faulty variant of ActiveThreader: calls keep going to the generation that
\* was abandoned first.
StaleThreader ==
    IF tm_abandoned = <<>> THEN tm_threader ELSE Head(tm_abandoned)

\* ThreaderManager.__getattr__: a call on BGThreader goes to self.threader
ActiveThreader == tm_threader

\* BGThreader.addTask(task) with a new task: ThreaderManager.__getattr__
\* hands the call to the active generation, which gives the task the next
\* priority (the tasks of a generation are served in the order of addTask),
\* puts it and starts the workers whose thread is not alive
tm_addTask ==
    /\ sd_pc = "idle"
    /\ tk_next <= MaxTmTasks
    /\ p_queue' = [p_queue EXCEPT ![ActiveThreader] = Append(@, tk_next)]
    /\ pw_state' = [x \in Gens \X Workers |->
                        IF /\ x[1] = ActiveThreader
                           /\ x[2] \in Followed(ActiveThreader)
                           /\ pw_state[x] = "none"
                        THEN "start" ELSE pw_state[x]]
    /\ tk_pool' = [tk_pool EXCEPT ![tk_next] = ActiveThreader]
    /\ tk_next' = tk_next + 1
    /\ UNCHANGED <<tm_index, p_workers, tm_abandoned, tm_threader, p_abort, pw_task,
                   pw_abort, pw_working, tk_canceled, tk_finished, sd_pc,
                   sd_k, sd_w, tk_runner, tm_resets>>

\* _queueLoop up to its loop: a BackgroundWorker returns (its thread ends)
\* when the queue is empty
tm_worker_begin(g, w) ==
    /\ pw_state[<<g, w>>] = "start"
    /\ pw_state' = [pw_state EXCEPT ![<<g, w>>] =
                        IF ~nonstopping /\ p_queue[g] = <<>> THEN "none"
                        ELSE "loop"]
    /\ UNCHANGED <<tm_index, p_workers, tm_abandoned, tm_threader, p_queue, p_abort,
                   pw_task, pw_abort, pw_working, tk_canceled, tk_finished,
                   sd_pc, sd_k, sd_w, tk_next, tk_pool, tk_runner,
                   tm_resets>>

\* _queueLoop: while not self.aborted(): self._task = self._queue.get_nowait();
\* the thread ends when aborted, a BackgroundWorker also on Queue.Empty (a
\* NonstoppingBackgroundWorker waits and tries again)
tm_worker_get(g, w) ==
    /\ pw_state[<<g, w>>] = "loop"
    /\ IF PoolWorkerAborted(g, w)
       THEN /\ pw_state' = [pw_state EXCEPT ![<<g, w>>] = "none"]
            /\ UNCHANGED <<p_queue, pw_task>>
       ELSE IF p_queue[g] = <<>>
       THEN /\ ~nonstopping
            /\ pw_state' = [pw_state EXCEPT ![<<g, w>>] = "none"]
            /\ UNCHANGED <<p_queue, pw_task>>
       ELSE /\ pw_task' = [pw_task EXCEPT ![<<g, w>>] = Head(p_queue[g])]
            /\ p_queue' = [p_queue EXCEPT ![g] = Tail(@)]
            /\ pw_state' = [pw_state EXCEPT ![<<g, w>>] = "got"]
    /\ UNCHANGED <<tm_index, p_workers, tm_abandoned, tm_threader, p_abort, pw_abort,
                   pw_working, tk_canceled, tk_finished, sd_pc, sd_k, sd_w,
                   tk_next, tk_pool, tk_runner, tm_resets>>

\* _queueLoop: (self._working = True;) self._runTask(self._task) up to the
\* call of task._run(); for a cancelled task _runTask returns at once and
\* the loop goes on: (self._working = False;) task_done(); self._task = None
tm_worker_run(g, w) ==
    /\ pw_state[<<g, w>>] = "got"
    /\ IF pw_task[<<g, w>>] \in tk_canceled
       THEN /\ pw_state' = [pw_state EXCEPT ![<<g, w>>] = "loop"]
            /\ pw_task' = [pw_task EXCEPT ![<<g, w>>] = None]
            /\ UNCHANGED <<pw_working, tk_runner>>
       ELSE /\ pw_state' = [pw_state EXCEPT ![<<g, w>>] = "body"]
            /\ pw_working' = [pw_working EXCEPT ![<<g, w>>] = nonstopping]
            /\ tk_runner' = [tk_runner EXCEPT ![pw_task[<<g, w>>]] = g]
            /\ UNCHANGED pw_task
    /\ UNCHANGED <<tm_index, p_workers, tm_abandoned, tm_threader, p_queue, p_abort,
                   pw_abort, tk_canceled, tk_finished, sd_pc, sd_k, sd_w,
                   tk_next, tk_pool, tm_resets>>

\* task.run() returns (Task._run sets finished) or raises (caught by
\* _runTask); then (self._working = False;) task_done(); self._task = None
tm_worker_body(g, w, raises) ==
    /\ pw_state[<<g, w>>] = "body"
    /\ tk_finished' = IF raises THEN tk_finished
                      ELSE tk_finished \cup {pw_task[<<g, w>>]}
    /\ pw_working' = [pw_working EXCEPT ![<<g, w>>] = FALSE]
    /\ pw_task' = [pw_task EXCEPT ![<<g, w>>] = None]
    /\ pw_state' = [pw_state EXCEPT ![<<g, w>>] = "loop"]
    /\ UNCHANGED <<tm_index, p_workers, tm_abandoned, tm_threader, p_queue, p_abort,
                   pw_abort, tk_canceled, sd_pc, sd_k, sd_w, tk_next, tk_pool,
                   tk_runner, tm_resets>>

\* ThreaderManager.reset returns at once:
\* self.threader._queue.empty() and not self.threader.hasTask()
ResetIsNoop(g) == p_queue[g] = <<>> /\ ~hasTask(g)

\* ThreaderManager.reset; the new BackgroundThreader is made with
\* worker=self._workerhandler and no worker_count, so with the default
tm_reset ==
    /\ sd_pc = "idle"
    /\ tm_resets < MaxResets
    /\ tm_resets' = tm_resets + 1
    /\ IF ResetIsNoop(tm_threader)
       THEN UNCHANGED <<tm_index, p_workers, tm_abandoned, tm_threader, p_abort,
                        pw_abort>>
       ELSE /\ tm_index' = tm_index + 1
            /\ AbortPool(tm_threader)
            /\ tm_abandoned' = Append(tm_abandoned, tm_threader)
            /\ tm_threader' = tm_index'
            /\ p_workers' = [p_workers EXCEPT
                                ![tm_index'] = DefaultWorkerCount]
    /\ UNCHANGED <<p_queue, pw_state, pw_task, pw_working, tk_canceled,
                   tk_finished, sd_pc, sd_k, sd_w, tk_next, tk_pool,
                   tk_runner>>

\* the generation ThreaderManager.shutdown is at: self.threader, then the
\* members of self.abandoned
PoolAt(k) == IF k = 1 THEN tm_threader ELSE tm_abandoned[k - 1]

\* ThreaderManager.shutdown is called
sd_begin ==
    /\ sd_pc = "idle"
    /\ sd_pc' = "pool"
    /\ sd_k' = 1
    /\ UNCHANGED <<tm_index, p_workers, tm_abandoned, tm_threader, p_queue, p_abort,
                   pw_state, pw_task, pw_abort, pw_working, tk_canceled,
                   tk_finished, sd_w, tk_next, tk_pool, tk_runner,
                   tm_resets>>

\* ThreaderManager.shutdown: the next generation, and
\* BackgroundThreader.shutdown: self.abort()
sd_pool ==
    /\ sd_pc = "pool"
    /\ IF sd_k > 1 + Len(tm_abandoned)
       THEN sd_pc' = "done" /\ UNCHANGED <<p_abort, pw_abort, sd_w>>
       ELSE sd_pc' = "check" /\ AbortPool(PoolAt(sd_k)) /\ sd_w' = 1
    /\ UNCHANGED <<tm_index, p_workers, tm_abandoned, tm_threader, p_queue, pw_state,
                   pw_task, pw_working, tk_canceled, tk_finished, sd_k,
                   tk_next, tk_pool, tk_runner, tm_resets>>

\* BackgroundThreader.shutdown: the next worker, and
\* BackgroundWorker.shutdown: self.abort(); if self._task:
sd_check ==
    /\ sd_pc = "check"
    /\ IF sd_w > Len(WorkerList)
       THEN sd_pc' = "pool" /\ sd_k' = sd_k + 1
       ELSE /\ sd_pc' = IF pw_task[<<PoolAt(sd_k), WorkerList[sd_w]>>] # None
                        THEN "cancel" ELSE "join"
            /\ UNCHANGED sd_k
    /\ UNCHANGED <<tm_index, p_workers, tm_abandoned, tm_threader, p_queue, p_abort,
                   pw_state, pw_task, pw_abort, pw_working, tk_canceled,
                   tk_finished, sd_w, tk_next, tk_pool, tk_runner,
                   tm_resets>>

\* BackgroundWorker.shutdown: self._task.cancel(), which reads self._task
\* again: if the worker has set it to None since, the call is made on None
\* and raises AttributeError
sd_cancel ==
    /\ sd_pc = "cancel"
    /\ IF pw_task[<<PoolAt(sd_k), WorkerList[sd_w]>>] = None
       THEN sd_pc' = "raised" /\ UNCHANGED tk_canceled
       ELSE /\ sd_pc' = "join"
            /\ tk_canceled' = tk_canceled \cup
                                {pw_task[<<PoolAt(sd_k), WorkerList[sd_w]>>]}
    /\ UNCHANGED <<tm_index, p_workers, tm_abandoned, tm_threader, p_queue, p_abort,
                   pw_state, pw_task, pw_abort, pw_working, tk_finished, sd_k,
                   sd_w, tk_next, tk_pool, tk_runner, tm_resets>>

\* Faulty variant of Joined: shutdown goes on without waiting for the thread.
JoinedAtOnce(state) == TRUE

\* BackgroundWorker.shutdown: if the thread is alive, self._thread.join()
\* returns when the thread has ended
Joined(state) == state = "none"

\* BackgroundWorker.shutdown: the join, then on to the next worker
sd_join ==
    /\ sd_pc = "join"
    /\ Joined(pw_state[<<PoolAt(sd_k), WorkerList[sd_w]>>])
    /\ sd_pc' = "check"
    /\ sd_w' = sd_w + 1
    /\ UNCHANGED <<tm_index, p_workers, tm_abandoned, tm_threader, p_queue, p_abort,
                   pw_state, pw_task, pw_abort, pw_working, tk_canceled,
                   tk_finished, sd_k, tk_next, tk_pool, tk_runner,
                   tm_resets>>

\* The state after construction: ProcessingQueue._init and Queue.__init__,
\* BackgroundThreader.__init__ and BackgroundWorker.__init__, Task.__init__;
\* capacities are the values of maxsize to start from, kinds says whether
\* the workers are BackgroundWorkers (FALSE) or NonstoppingBackgroundWorkers,
\* groups are the task groups (Tasks) to start from.
InitWith(capacities, kinds, groups, counts) ==
    /\ maxsize \in capacities
    /\ sections = <<>>
    /\ queues = <<>>
    /\ current_section = None
    /\ current_queue = None
    /\ counter = 0
    /\ unfinished_tasks = 0
    /\ secinfo = [s \in SectionIds |-> NoInfo]
    /\ qitems = [s \in SectionIds |-> <<>>]
    /\ next_index = [s \in SectionIds |-> 0]
    /\ not_full_waiters = <<>>
    /\ pstate = [p \in Producers |-> "idle"]
    /\ pitem = [p \in Producers |-> NoneItem]
    /\ cstate = "idle"
    /\ nsec = 0
    /\ sentinel = None
    /\ arrival = [s \in SectionIds |-> <<>>]
    /\ delivered = <<>>
    /\ from_queue = <<>>
    /\ unacked = 0
    /\ raised = <<>>
    /\ unreg_calls = 0
    /\ tq = <<>>
    /\ priority = -1
    /\ prio = <<>>
    /\ finished = {}
    /\ wstate = [w \in Workers |-> "none"]
    /\ wtask = [w \in Workers |-> None]
    /\ cl_pc = "idle"
    /\ cl_tasks = <<>>
    /\ cl_p = 0
    /\ cl_item = None
    /\ dequeued = <<>>
    /\ plain = {}
    /\ front_old = {}
    /\ front_queued = {}
    /\ front_new = <<>>
    /\ front_clean = TRUE
    /\ mtf = None
    /\ moved = {}
    /\ moves = 0
    /\ t_canceled = {}
    /\ th_abort = FALSE
    /\ w_abort = [w \in Workers |-> FALSE]
    /\ abortRequested = FALSE
    /\ nonstopping \in kinds
    /\ ab_i = 0
    /\ resubmits = 0
    /\ put_count = [i \in 1..MaxTasks |-> 0]
    /\ started = [i \in 1..MaxTasks |-> 0]
    /\ failed = {}
    /\ w_failed = {}
    /\ abort_calls = 0
    /\ kt_canceled = FALSE
    /\ kt_suspended = FALSE
    /\ is_not_suspended = TRUE
    /\ suspension_reached = FALSE
    /\ is_not_asleep = TRUE
    /\ suspension_timeout = None
    /\ stop_pkc = FALSE
    /\ th_pc = "run"
    /\ th_timeout = None
    /\ c_pc = [c \in Controllers |-> "idle"]
    /\ c_block = [c \in Controllers |-> FALSE]
    /\ wake_cause = "flag"
    /\ cancel_in_block = {}
    /\ cancels_done = 0
    /\ wws_after_cancel = FALSE
    /\ wws_ret = FALSE
    /\ timed_out = FALSE
    /\ ts_list \in groups
    /\ ts_pc = "idle"
    /\ ts_before = <<>>
    /\ ts_arg = <<>>
    /\ fs_pc = "run"
    /\ fs_successful = TRUE
    /\ fs_cancel = FALSE
    /\ fs_section_queue = <<>>
    /\ fs_cur = None
    /\ en_pc = [e \in Enumerators |-> "off"]
    /\ en_i = [e \in Enumerators |-> 1]
    /\ scanner = "off"
    /\ fetchers = [f \in Producers |-> "run"]
    /\ applier = "off"
    /\ fs_removed = 0
    /\ fs_calls = <<>>
    /\ fs_enum_errors = {}
    /\ fs_empty = {}
    /\ fs_registered = <<>>
    /\ fs_proc_errors = {}
    /\ fs_enumerated = <<>>
    /\ fs_processed = <<>>
    /\ fs_result = <<>>
    /\ tm_index = 0
    /\ tm_abandoned = <<>>
    /\ tm_threader = 0
    /\ p_queue = [g \in Gens |-> <<>>]
    /\ p_workers \in {[g \in Gens |-> IF g = 0 THEN n ELSE 0] : n \in counts}
    /\ p_abort = [g \in Gens |-> FALSE]
    /\ pw_state = [x \in Gens \X Workers |-> "none"]
    /\ pw_task = [x \in Gens \X Workers |-> None]
    /\ pw_abort = [x \in Gens \X Workers |-> FALSE]
    /\ pw_working = [x \in Gens \X Workers |-> FALSE]
    /\ tk_canceled = {}
    /\ tk_finished = {}
    /\ sd_pc = "idle"
    /\ sd_k = 1
    /\ sd_w = 1
    /\ tk_next = 1
    /\ tk_pool = [i \in 1..MaxTmTasks |-> None]
    /\ tk_runner = [i \in 1..MaxTmTasks |-> None]
    /\ tm_resets = 0

TQNext ==
    \/ (\E k \in 1..MaxBatch : addTasks(k)) /\ UNCHANGED <<pqVars, ktVars, restVars>>
    \/ addTasks_put /\ UNCHANGED <<pqVars, ktVars, restVars>>
    \/ (\E k \in 1..MaxBatch : addTasksToFront(k)) /\ UNCHANGED <<pqVars, ktVars, restVars>>
    \/ addTasksToFront_put /\ UNCHANGED <<pqVars, ktVars, restVars>>
    \/ startWorkers /\ UNCHANGED <<pqVars, ktVars, restVars>>
    \/ (\E t \in 1..MaxTasks : moveToFront(t)) /\ UNCHANGED <<pqVars, ktVars, restVars>>
    \/ moveToFront_set /\ UNCHANGED <<pqVars, ktVars, restVars>>
    \/ (\E w \in Workers : worker_begin(w)) /\ UNCHANGED <<pqVars, ktVars, restVars>>
    \/ (\E w \in Workers : worker_get(w)) /\ UNCHANGED <<pqVars, ktVars, restVars>>
    \/ (\E w \in Workers : worker_run(w)) /\ UNCHANGED <<pqVars, ktVars, restVars>>
    \/ (\E w \in Workers : worker_body(w, FALSE)) /\ UNCHANGED <<pqVars, ktVars, restVars>>
    \/ (\E w \in Workers : worker_exit(w)) /\ UNCHANGED <<pqVars, ktVars, restVars>>

\* the task queue and its workers, the delivery queue being left alone
SpecTQ == InitWith({1}, {FALSE}, {<<>>}, {DefaultWorkerCount}) /\ [][TQNext]_vars

PQNext ==
    \/ (\E ordered \in BOOLEAN, n \in 1..MaxItems :
           \E f \in 0..n : add_section(ordered, n, f))
           /\ UNCHANGED <<tqVars, wkVars, ktVars, restVars>>
    \/ put_sentinel /\ UNCHANGED <<tqVars, wkVars, ktVars, restVars>>
    \/ (\E p \in Producers, s \in SectionIds, i \in 0..(MaxItems - 1) :
           put(p, s, i)) /\ UNCHANGED <<tqVars, wkVars, ktVars, restVars>>
    \/ (\E p \in Producers : put_unregistered(p)) /\ UNCHANGED <<tqVars, wkVars, ktVars, restVars>>
    \/ (\E p \in Producers : put_wakeup(p)) /\ UNCHANGED <<tqVars, wkVars, ktVars, restVars>>
    \/ get /\ UNCHANGED <<tqVars, wkVars, ktVars, restVars>>
    \/ get_wakeup /\ UNCHANGED <<tqVars, wkVars, ktVars, restVars>>
    \/ get_wakeup_next /\ UNCHANGED <<tqVars, wkVars, ktVars, restVars>>
    \/ task_done /\ UNCHANGED <<tqVars, wkVars, ktVars, restVars>>

\* the delivery queue, the task queue being left alone
SpecPQ == InitWith(1..MaxSize, {FALSE}, {<<>>}, {DefaultWorkerCount}) /\ [][PQNext]_vars

WKNext ==
    \/ addTasks(1) /\ UNCHANGED <<pqVars, ktVars, restVars>>
    \/ (\E t \in 1..MaxTasks : resubmit(t)) /\ UNCHANGED <<pqVars, ktVars, restVars>>
    \/ addTasks_put /\ UNCHANGED <<pqVars, ktVars, restVars>>
    \/ startWorkers /\ UNCHANGED <<pqVars, ktVars, restVars>>
    \/ (\E t \in 1..MaxTasks : task_cancel(t)) /\ UNCHANGED <<pqVars, ktVars, restVars>>
    \/ abort /\ UNCHANGED <<pqVars, ktVars, restVars>>
    \/ abort_worker /\ UNCHANGED <<pqVars, ktVars, restVars>>
    \/ xbmc_abort /\ UNCHANGED <<pqVars, ktVars, restVars>>
    \/ (\E w \in Workers : worker_begin(w)) /\ UNCHANGED <<pqVars, ktVars, restVars>>
    \/ (\E w \in Workers : worker_get(w)) /\ UNCHANGED <<pqVars, ktVars, restVars>>
    \/ (\E w \in Workers : worker_run(w)) /\ UNCHANGED <<pqVars, ktVars, restVars>>
    \/ (\E w \in Workers, raises \in BOOLEAN : worker_body(w, raises))
           /\ UNCHANGED <<pqVars, ktVars, restVars>>
    \/ (\E w \in Workers : worker_exit(w)) /\ UNCHANGED <<pqVars, ktVars, restVars>>

\* the workers of one BackgroundThreader with tasks that are cancelled,
\* raise or are handed in again, and with abort()
SpecWK == InitWith({1}, BOOLEAN, {<<>>}, {DefaultWorkerCount}) /\ [][WKNext]_vars

KTNext ==
    \/ (\E c \in Controllers : cancel_1(c)) /\ UNCHANGED <<pqVars, tqVars, wkVars, restVars>>
    \/ (\E c \in Controllers : cancel_2(c)) /\ UNCHANGED <<pqVars, tqVars, wkVars, restVars>>
    \/ (\E c \in Controllers : cancel_3(c)) /\ UNCHANGED <<pqVars, tqVars, wkVars, restVars>>
    \/ (\E c \in Controllers, block \in BOOLEAN, timeout \in {None, SomeTimeout} :
           suspend_1(c, block, timeout)) /\ UNCHANGED <<pqVars, tqVars, wkVars, restVars>>
    \/ (\E c \in Controllers : suspend_2(c)) /\ UNCHANGED <<pqVars, tqVars, wkVars, restVars>>
    \/ (\E c \in Controllers : suspend_3(c)) /\ UNCHANGED <<pqVars, tqVars, wkVars, restVars>>
    \/ (\E c \in Controllers : suspend_4(c)) /\ UNCHANGED <<pqVars, tqVars, wkVars, restVars>>
    \/ (\E c \in Controllers : suspend_5(c)) /\ UNCHANGED <<pqVars, tqVars, wkVars, restVars>>
    \/ (\E c \in Controllers : resume_1(c)) /\ UNCHANGED <<pqVars, tqVars, wkVars, restVars>>
    \/ (\E c \in Controllers : resume_2(c)) /\ UNCHANGED <<pqVars, tqVars, wkVars, restVars>>
    \/ (\E c \in Controllers : resume_3(c)) /\ UNCHANGED <<pqVars, tqVars, wkVars, restVars>>
    \/ set_stop_pkc /\ UNCHANGED <<pqVars, tqVars, wkVars, restVars>>
    \/ wws_1 /\ UNCHANGED <<pqVars, tqVars, wkVars, restVars>>
    \/ wws_2 /\ UNCHANGED <<pqVars, tqVars, wkVars, restVars>>
    \/ wws_3 /\ UNCHANGED <<pqVars, tqVars, wkVars, restVars>>
    \/ wws_4 /\ UNCHANGED <<pqVars, tqVars, wkVars, restVars>>
    \/ sleep_1 /\ UNCHANGED <<pqVars, tqVars, wkVars, restVars>>
    \/ sleep_2 /\ UNCHANGED <<pqVars, tqVars, wkVars, restVars>>
    \/ sleep_3 /\ UNCHANGED <<pqVars, tqVars, wkVars, restVars>>
    \/ wait_timeout /\ UNCHANGED <<pqVars, tqVars, wkVars, restVars>>

\* one KillableThread and the threads that cancel, suspend and resume it
SpecKT == InitWith({1}, {FALSE}, {<<>>}, {DefaultWorkerCount}) /\ [][KTNext]_vars

TSNext ==
    \/ (\E as_list \in BOOLEAN, p \in 0..MaxGroupPriority : Tasks_add(as_list, p))
           /\ UNCHANGED <<pqVars, tqVars, wkVars, ktVars, fsVars, tmVars>>

FSNext ==
    \/ (\E ok \in BOOLEAN : fs_begin(ok))
           /\ UNCHANGED <<pqVars, tqVars, wkVars, ktVars, tsVars, tmVars>>
    \/ fs_begin_canceled /\ UNCHANGED <<pqVars, tqVars, wkVars, ktVars, tsVars, tmVars>>
    \/ scanner_step /\ UNCHANGED <<pqVars, tqVars, wkVars, ktVars, tsVars, tmVars>>
    \/ (\E f \in Producers, puts \in BOOLEAN : fetch_step(f, puts))
           /\ UNCHANGED <<pqVars, tqVars, wkVars, ktVars, tsVars, tmVars>>
    \/ applier_end /\ UNCHANGED <<pqVars, tqVars, wkVars, ktVars, tsVars, tmVars>>
    \/ fs_put_sentinel /\ UNCHANGED <<pqVars, tqVars, wkVars, ktVars, tsVars, tmVars>>
    \/ (\E ok \in BOOLEAN, pl \in BOOLEAN : fs_after_items(ok, pl))
           /\ UNCHANGED <<pqVars, tqVars, wkVars, ktVars, tsVars, tmVars>>
    \/ fs_playstates_get /\ UNCHANGED <<pqVars, tqVars, wkVars, ktVars, tsVars, tmVars>>
    \/ (\E raises \in BOOLEAN : fs_playstate_per_section(raises))
           /\ UNCHANGED <<pqVars, tqVars, wkVars, ktVars, tsVars, tmVars>>
    \/ fs_after_playstates /\ UNCHANGED <<pqVars, tqVars, wkVars, ktVars, tsVars, tmVars>>
    \/ (\E more \in BOOLEAN : fs_delete(more))
           /\ UNCHANGED <<pqVars, tqVars, wkVars, ktVars, tsVars, tmVars>>
    \/ fs_exception /\ UNCHANGED <<pqVars, tqVars, wkVars, ktVars, tsVars, tmVars>>
    \/ fs_callback /\ UNCHANGED <<pqVars, tqVars, wkVars, ktVars, tsVars, tmVars>>
    \/ (\E e \in Enumerators, sync \in BOOLEAN : en_check(e, sync))
           /\ UNCHANGED <<pqVars, tqVars, wkVars, ktVars, tsVars, tmVars>>
    \/ (\E e \in Enumerators, raises \in BOOLEAN, total \in 0..1 :
           en_iter(e, raises, total))
           /\ UNCHANGED <<pqVars, tqVars, wkVars, ktVars, tsVars, tmVars>>
    \/ (\E e \in Enumerators : en_unexpected(e))
           /\ UNCHANGED <<pqVars, tqVars, wkVars, ktVars, tsVars, tmVars>>
    \/ (\E e \in Enumerators : en_add(e))
           /\ UNCHANGED <<pqVars, tqVars, wkVars, ktVars, tsVars, tmVars>>
    \/ (\E e \in Enumerators : en_put(e))
           /\ UNCHANGED <<pqVars, tqVars, wkVars, ktVars, tsVars, tmVars>>
    \/ (\E e \in Enumerators : en_finally(e))
           /\ UNCHANGED <<pqVars, tqVars, wkVars, ktVars, tsVars, tmVars>>
    \/ fs_request_cancel /\ UNCHANGED <<pqVars, tqVars, wkVars, ktVars, tsVars, tmVars>>

\* one run of FullSync with its threaded_get_iterators threads
SpecFS == InitWith({1}, {FALSE}, {<<>>}, {DefaultWorkerCount}) /\ [][FSNext]_vars

\* the same run with every thread that is started kept running: the FullSync
\* thread, the threaded_get_iterators threads, the scanner, the fetch workers
\* and the applier each take their next step when it stays possible.
\* Cancellation and exceptions may or may not happen.
SpecFSLive ==
    /\ SpecFS
    /\ WF_vars(/\ \/ \E ok \in BOOLEAN : fs_begin(ok)
                  \/ fs_put_sentinel
                  \/ \E ok \in BOOLEAN, pl \in BOOLEAN : fs_after_items(ok, pl)
                  \/ fs_playstates_get
                  \/ \E raises \in BOOLEAN : fs_playstate_per_section(raises)
                  \/ fs_after_playstates
                  \/ \E more \in BOOLEAN : fs_delete(more)
                  \/ fs_callback
               /\ UNCHANGED <<pqVars, tqVars, wkVars, ktVars, tsVars, tmVars>>)
    /\ \A e \in Enumerators :
          WF_vars(/\ \/ \E sync \in BOOLEAN : en_check(e, sync)
                     \/ \E raises \in BOOLEAN, total \in 0..1 :
                           en_iter(e, raises, total)
                     \/ en_add(e)
                     \/ en_put(e)
                     \/ en_finally(e)
                  /\ UNCHANGED <<pqVars, tqVars, wkVars, ktVars, tsVars,
                                 tmVars>>)
    /\ WF_vars(scanner_step
               /\ UNCHANGED <<pqVars, tqVars, wkVars, ktVars, tsVars, tmVars>>)
    /\ \A f \in Producers :
          WF_vars(fetch_step(f, FALSE)
                  /\ UNCHANGED <<pqVars, tqVars, wkVars, ktVars, tsVars,
                                 tmVars>>)
    /\ WF_vars(applier_end
               /\ UNCHANGED <<pqVars, tqVars, wkVars, ktVars, tsVars, tmVars>>)

TMNext ==
    \/ tm_addTask /\ UNCHANGED <<pqVars, tqVars, wkVars, ktVars, tsVars, fsVars>>
    \/ tm_reset /\ UNCHANGED <<pqVars, tqVars, wkVars, ktVars, tsVars, fsVars>>
    \/ (\E g \in Gens, w \in Workers : tm_worker_begin(g, w))
           /\ UNCHANGED <<pqVars, tqVars, wkVars, ktVars, tsVars, fsVars>>
    \/ (\E g \in Gens, w \in Workers : tm_worker_get(g, w))
           /\ UNCHANGED <<pqVars, tqVars, wkVars, ktVars, tsVars, fsVars>>
    \/ (\E g \in Gens, w \in Workers : tm_worker_run(g, w))
           /\ UNCHANGED <<pqVars, tqVars, wkVars, ktVars, tsVars, fsVars>>
    \/ (\E g \in Gens, w \in Workers, raises \in BOOLEAN :
           tm_worker_body(g, w, raises))
           /\ UNCHANGED <<pqVars, tqVars, wkVars, ktVars, tsVars, fsVars>>
    \/ sd_begin /\ UNCHANGED <<pqVars, tqVars, wkVars, ktVars, tsVars, fsVars>>
    \/ sd_pool /\ UNCHANGED <<pqVars, tqVars, wkVars, ktVars, tsVars, fsVars>>
    \/ sd_check /\ UNCHANGED <<pqVars, tqVars, wkVars, ktVars, tsVars, fsVars>>
    \/ sd_cancel /\ UNCHANGED <<pqVars, tqVars, wkVars, ktVars, tsVars, fsVars>>
    \/ sd_join /\ UNCHANGED <<pqVars, tqVars, wkVars, ktVars, tsVars, fsVars>>

\* the ThreaderManager with its generations of BackgroundThreader, for
\* BackgroundWorkers and for NonstoppingBackgroundWorkers
SpecTM ==
    InitWith({1}, BOOLEAN, {<<>>}, 1..MaxWorkerCount \cup {DefaultWorkerCount})
    /\ [][TMNext]_vars

\* Tasks.add applied to the task groups of at most MaxGroup members
SpecTS == InitWith({1}, {FALSE}, Groups(MaxGroup), {DefaultWorkerCount}) /\ [][TSNext]_vars

\* =================================================================
\* Properties of the delivery queue (ProcessingQueue, OrderedQueue)
\* =================================================================
\* the payloads get() returned that belong to section s, in order
DeliveredOf(s) == SelectSeq(delivered, LAMBDA x : x.section = s)
\* the number of get() calls served from the sub-queue of section s
GotFrom(s) == Cardinality({k \in DOMAIN from_queue : from_queue[k] = s})
\* the positions at which get() returned the sentinel
SentinelAt == {k \in DOMAIN delivered : delivered[k] = NonePayload}

IsPrefix(a, b) == Len(a) <= Len(b) /\ SubSeq(b, 1, Len(a)) = a

RECURSIVE Ascending(_)
\* the elements of a set of integers in increasing order
Ascending(S) ==
    IF S = {} THEN <<>>
    ELSE LET m == CHOOSE x \in S : \A y \in S : x <= y
         IN  <<m>> \o Ascending(S \ {m})

\* what section s contributes to the stream: its items by index if it is an
\* ordered section, in arrival order otherwise; the sentinel for the sentinel
\* section
SectionStream(s) ==
    IF s = sentinel THEN <<NonePayload>>
    ELSE LET idx == IF secinfo[s].ordered THEN Ascending(Range(arrival[s]))
                    ELSE arrival[s]
         IN  [k \in DOMAIN idx |-> Payload(s, idx[k])]

RECURSIVE ExpectedStream(_)
\* the concatenation of the sections' streams, in registration order, from
\* section s on
ExpectedStream(s) ==
    IF s > nsec THEN <<>> ELSE SectionStream(s) \o ExpectedStream(s + 1)

ExpectedActive ==
    LET open == {s \in 1..nsec : GotFrom(s) # ItemsToCome(secinfo[s])}
    IN  IF open = {} THEN None ELSE CHOOSE s \in open : \A u \in open : s <= u

\* C2: the active section is the first registered section that has not yet
\* handed out exactly number_of_items - failed_items items (the queue has
\* moved past every section that has, and past none that has not), for every
\* 0 <= failed_items <= number_of_items; and the counter counts the items of
\* the active section.
C2_SwitchAtThreshold ==
    /\ current_section = ExpectedActive
    /\ counter = IF current_section = None THEN 0 ELSE GotFrom(current_section)

\* C3: what get() has returned is a prefix of the concatenation, in
\* registration order, of the sections' items (by index for an ordered
\* section, in arrival order otherwise) and the sentinel; no item of a
\* registered section is refused, none is returned twice, and once the
\* sentinel is returned every item put into an earlier section has been.
C3_StreamIsConcatenation ==
    /\ IsPrefix(delivered, ExpectedStream(1))
    /\ \A x \in Range(raised) : x.section = NoSection
    /\ \A j, k \in DOMAIN delivered : delivered[j] = delivered[k] => j = k
    /\ SentinelAt # {} =>
           \A s \in 1..(sentinel - 1) : \A i \in Range(arrival[s]) :
               \E k \in DOMAIN delivered :
                   /\ delivered[k] = Payload(s, i)
                   /\ \A z \in SentinelAt : k < z

\* C3 witness: section 1 is ordered with two items, put as 1 then 0; section
\* 2 is a plain section with one item; get() returned item 0, item 1, the item
\* of section 2 and then the sentinel.
C3_Witness ==
    /\ secinfo[1].ordered /\ arrival[1] = <<1, 0>>
    /\ ~secinfo[2].ordered
    /\ delivered = <<Payload(1, 0), Payload(1, 1), Payload(2, 0), NonePayload>>

\* C4: when the sentinel is returned, every section registered before it has
\* handed out exactly number_of_items - failed_items items, all of them before
\* the sentinel; the sentinel is returned once; and if no section was
\* registered after put_sentinel, the queue then has no active section and
\* get() returns nothing after the sentinel.
C4_SentinelLast ==
    SentinelAt # {} =>
        /\ Cardinality(SentinelAt) = 1
        /\ \A s \in 1..(sentinel - 1) :
               /\ GotFrom(s) = ItemsToCome(secinfo[s])
               /\ \A k \in DOMAIN from_queue : \A z \in SentinelAt :
                      from_queue[k] = s => k < z
        /\ nsec = sentinel =>
               /\ delivered[Len(delivered)] = NonePayload
               /\ current_section = None
               /\ current_queue = None
               /\ sections = <<>>

\* C4 witness: two sections were registered before the sentinel, and the
\* consumer has received their items, then the sentinel, and called get() again.
C4_Witness ==
    /\ sentinel = 3
    /\ SentinelAt # {}
    /\ Len(delivered) >= 3
    /\ cstate = "wait_ne"

\* C5: the items buffered in all the sub-queues together never exceed maxsize.
C5_GlobalCapacity == total_size <= maxsize

\* the queue as put() can change it
QueueState == <<sections, queues, current_section, current_queue, counter,
                unfinished_tasks, qitems, next_index, cstate, arrival>>
\* a sub-queue only holds items of its own section
OnlyOwnItems ==
    \A q \in SectionIds : \A x \in Range(qitems[q]) :
        x = NoneItem \/ x[2].section = q
\* the producers inside put() with an item of an unregistered section
WaitingUnregistered == {p \in Producers : pitem[p][2].section = NoSection}
\* a step in which _put raises leaves the queue as it was
RaiseLeavesQueue ==
    raised' # raised =>
        /\ UNCHANGED QueueState
        /\ raised'[Len(raised')].section \notin Range(sections)

\* C6 as stated: every put() of an item of an unregistered section has raised
\* at once (none is waiting for room), nothing of it is stored, and the step
\* that raises leaves the queue, the unfinished-task count and the consumer
\* untouched.
C6_RaisesAtOnce ==
    /\ [](OnlyOwnItems /\ Len(raised) = unreg_calls)
    /\ [][RaiseLeavesQueue]_vars

\* C6 amended: every put() of an item of an unregistered section has raised
\* or is still waiting for room in the active sub-queue; nothing of it is
\* stored, and the step that raises leaves the queue, the unfinished-task
\* count and the consumer untouched.
C6_RaisesAfterWait ==
    /\ [](/\ OnlyOwnItems
          /\ Len(raised) + Cardinality(WaitingUnregistered) = unreg_calls
          /\ \A p \in WaitingUnregistered : pstate[p] # "idle")
    /\ [][RaiseLeavesQueue]_vars

\* C6 witness: a put() for an unregistered section has raised while the queue
\* held items.
C6_Witness == raised # <<>> /\ total_size > 0

\* the section list and the sub-queue list run in parallel, and the active
\* section and sub-queue are their heads
HeadsAreActive ==
    /\ Len(sections) = Len(queues)
    /\ current_section = IF sections = <<>> THEN None ELSE Head(sections)
    /\ current_queue = IF queues = <<>> THEN None ELSE Head(queues)
\* items leave the active sub-queue only, and enter registered sub-queues only
ItemsMoveThroughHead ==
    \A q \in SectionIds :
        /\ Len(qitems'[q]) < Len(qitems[q]) =>
               q = current_queue /\ q = Head(queues)
        /\ Len(qitems'[q]) > Len(qitems[q]) => q \in Range(queues')

\* C7: at most one section is active: the section list and the sub-queue list
\* have the same length, the active section and sub-queue are their heads
\* (None exactly when the lists are empty), get() takes items from the active
\* sub-queue only and put() stores into registered sub-queues.
C7_OneActiveSection == []HeadsAreActive /\ [][ItemsMoveThroughHead]_vars

\* C7 witness: two sections are registered, the second (not active) holds an
\* item that was put, and get() has taken an item from the active one.
C7_Witness ==
    /\ Len(queues) >= 2
    /\ qitems[queues[2]] # <<>>
    /\ current_queue = queues[1]
    /\ counter > 0
\* =================================================================
\* Properties of the task queue (MutablePriorityQueue, BackgroundThreader)
\* =================================================================
\* a worker takes a task from the queue in this step
DequeueStep == dequeued' # dequeued
\* the task it takes
DequeuedTask == dequeued'[Len(dequeued')]
\* the priorities of the queued tasks
QueuedPriorities == {prio[u] : u \in Range(tq)}
\* the smallest of them
MinQueuedPriority ==
    CHOOSE m \in QueuedPriorities : \A x \in QueuedPriorities : m <= x
\* the tasks of the running call that were put already
WasPut(t) == t \notin Range(cl_tasks)

\* every dequeue returns a queued task of minimal priority
DequeueTakesMin ==
    DequeueStep =>
        /\ DequeuedTask \in Range(tq)
        /\ \A u \in Range(tq) : prio[DequeuedTask] <= prio[u]
\* the tasks put by addTask/addTasks (and not moved since) have priorities
\* that grow strictly in the order of their submission, and leave the queue
\* in that order
PlainInOrder ==
    /\ \A a, b \in plain :
           (a < b /\ WasPut(a) /\ WasPut(b)) => prio[a] < prio[b]
    /\ \A i, j \in DOMAIN dequeued :
           (i < j /\ dequeued[i] \in plain /\ dequeued[j] \in plain)
               => dequeued[i] < dequeued[j]
    /\ \A a \in plain \cap Range(tq) : \A b \in plain \cap Range(dequeued) :
           b < a

\* C8: every dequeue returns a task whose priority is minimal among the tasks
\* queued at that moment, and the tasks submitted through addTask/addTasks
\* only get strictly growing priorities and are dequeued in submission order.
C8_MinFirst == [][DequeueTakesMin]_vars /\ []PlainInOrder

\* C8 witness: three tasks were submitted through addTask/addTasks and
\* dequeued in this order.
C8_Witness == plain = {1, 2, 3} /\ dequeued = <<1, 2, 3>>

\* C9: after addTasksToFront(tasks) called with N >= 1 tasks queued (and no
\* moveToFront since), every new task that was put has a priority below that
\* of each of the N tasks, the new tasks have growing priorities in list order
\* and are dequeued in that order, and whenever one of the N tasks (counting
\* only those still queued when the first new task is put) has been dequeued,
\* every task of the list was dequeued before it; with an empty queue the
\* tasks are put as addTasks puts them.
C9_FrontBeforeQueued ==
    front_clean =>
        /\ \A k \in DOMAIN front_new : \A o \in front_old :
               WasPut(front_new[k]) => prio[front_new[k]] < prio[o]
        /\ \A j, k \in DOMAIN front_new :
               (j < k /\ WasPut(front_new[k]))
                   => /\ front_old # {} => prio[front_new[j]] < prio[front_new[k]]
                      /\ front_new[k] \in Range(dequeued)
                             => \E a, b \in DOMAIN dequeued :
                                    /\ a < b
                                    /\ dequeued[a] = front_new[j]
                                    /\ dequeued[b] = front_new[k]
        /\ \A o \in front_queued : \A k \in DOMAIN front_new :
               \A b \in DOMAIN dequeued :
                   (WasPut(front_new[1]) /\ dequeued[b] = o)
                       => \E a \in 1..(b - 1) : dequeued[a] = front_new[k]
        /\ front_old = {} =>
               \A k \in DOMAIN front_new :
                   WasPut(front_new[k]) => front_new[k] \in plain

\* a moveToFront call begins in this step
MoveCall == moves' = moves + 1
\* with an empty queue the call changes nothing; otherwise it computes the
\* minimum queued priority minus one
MoveReadsLowest ==
    MoveCall =>
        IF tq = <<>>
        THEN UNCHANGED <<tq, prio, priority, cl_pc, mtf>>
        ELSE cl_pc' = "move" /\ cl_p' = MinQueuedPriority - 1
\* the call then gives the task this priority, and touches nothing else
MoveSetsPriority ==
    (cl_pc = "move" /\ cl_pc' = "idle") =>
        /\ prio'[cl_item] = cl_p
        /\ \A u \in DOMAIN prio : u # cl_item => prio'[u] = prio[u]
        /\ tq' = tq
\* the next dequeue returns the moved task
MovedIsNext == (DequeueStep /\ mtf # None) => DequeuedTask = mtf

\* C10: moveToFront(task) gives a queued task the priority (minimum queued
\* priority - 1), the minimum being read when the call begins; the next
\* dequeue returns that task unless another task was put in front meanwhile;
\* with an empty queue moveToFront changes nothing.
C10_MoveToFront ==
    [][MoveReadsLowest /\ MoveSetsPriority /\ MovedIsNext]_vars

\* C10 witness: a task that moveToFront moved while it was queued was the
\* last to be dequeued, ahead of a task submitted before it that is still
\* queued.
C10_Witness ==
    /\ dequeued # <<>>
    /\ dequeued[Len(dequeued)] \in moved
    /\ \E u \in Range(tq) : u \in plain /\ u < dequeued[Len(dequeued)]

\* =================================================================
\* Properties of the workers (BackgroundWorker, BackgroundThreader, Task)
\* =================================================================
\* the body of the task of worker w ends with an exception in this step
BodyRaises(w) == w \in w_failed' /\ w \notin w_failed
\* the exception stays inside _runTask: the worker is back at the head of its
\* loop with no task, nothing is aborted, the task is not marked finished
RaiseIsCaught ==
    \A w \in Workers : BodyRaises(w) =>
        /\ wstate'[w] = "loop"
        /\ wtask'[w] = None
        /\ wtask[w] \in failed'
        /\ finished' = finished
        /\ th_abort' = th_abort /\ w_abort' = w_abort
        /\ abortRequested' = abortRequested
        /\ tq' = tq
\* a worker in whose loop a body raised leaves the loop only as any worker
\* does: when it is aborted or finds the queue empty
LoopGoesOn ==
    \A w \in w_failed :
        (wstate[w] = "loop" /\ wstate'[w] # "loop") =>
            IF aborted(w) \/ tq = <<>>
            THEN wstate'[w] = "exiting"
            ELSE wstate'[w] = "run" /\ wtask'[w] \in Range(tq)

\* C17: an exception raised by a task body is caught at the worker: the worker
\* thread does not end, the pool is not aborted, the task is not marked
\* finished, and the same worker goes on dequeuing the queued tasks.
C17_RaiseIsCaught == [][RaiseIsCaught /\ LoopGoesOn]_vars

\* C17 witness: a worker in whose loop a task body raised is running the body
\* of another task.
C17_Witness ==
    \E w \in w_failed : wstate[w] = "body" /\ wtask[w] \notin failed

\* worker w calls the run() of its task in this step
BodyStarts(w) == wstate[w] = "run" /\ wstate'[w] = "body"
\* run() is only called for a task that is not cancelled
CancelledNotStarted ==
    \A w \in Workers : BodyStarts(w) => wtask[w] \notin t_canceled
\* finished is only set for a task whose run() returned
FinishedByBody ==
    \A t \in finished' \ finished :
        \E w \in Workers : wstate[w] = "body" /\ wtask[w] = t
\* run() is never called for a task that has finished
FinishedNotStarted ==
    \A w \in Workers : BodyStarts(w) => wtask[w] \notin finished

\* C18: a task whose cancelled flag is set when a worker is about to start it
\* is not executed and not marked finished, and a task that has finished is
\* never run again by any worker.
C18_NoRunAfterCancelOrFinish ==
    [][CancelledNotStarted /\ FinishedByBody /\ FinishedNotStarted]_vars

\* the number of times x occurs in seq
Count(seq, x) == Cardinality({i \in DOMAIN seq : seq[i] = x})

\* C19: with several workers on one queue each worker holds at most one task
\* (and holds one exactly while it runs it), every put of a task is matched by
\* at most one dequeue (the task is still queued or was dequeued once per put),
\* run() is called at most once per dequeue, and two workers hold the same
\* task only if it was put twice.
C19_OneWorkerPerTask ==
    /\ \A t \in 1..MaxTasks :
           /\ Count(dequeued, t) + Count(tq, t) = put_count[t]
           /\ started[t] <= Count(dequeued, t)
    /\ \A w \in Workers : (wtask[w] # None) <=> (wstate[w] \in {"run", "body"})
    /\ \A w1, w2 \in Workers :
           (w1 # w2 /\ wtask[w1] # None /\ wtask[w1] = wtask[w2])
               => put_count[wtask[w1]] >= 2

\* C19 witness: the two workers run the bodies of two different tasks at the
\* same time, a third task having been run before.
C19_Witness ==
    /\ \A w \in Workers : wstate[w] = "body"
    /\ wtask["w1"] # wtask["w2"]
    /\ finished # {}

\* abort() returns in this step
AbortReturns == ab_i = Len(WorkerList) /\ ab_i' = 0
\* the pool and all its workers are marked aborting
AllAborting == th_abort /\ \A w \in Workers : w_abort[w]
\* the tasks the workers hold
InFlight == {wtask[w] : w \in Workers} \ {None}

\* C20 as stated: when abort() returns, the pool and all its workers are
\* marked aborting and every task in flight has its cancelled flag set.
C20_AbortCancelsInFlight ==
    [][AbortReturns => (AllAborting' /\ InFlight \subseteq t_canceled')]_vars

\* C20 amended: when abort() returns, the pool and all its workers are marked
\* aborting, and they stay so; abort() sets the cancelled flag of no task and
\* takes no task from a worker.
C20_AbortMarksOnly ==
    /\ [][AbortReturns => AllAborting']_vars
    /\ [][(th_abort => th_abort')
          /\ \A w \in Workers : w_abort[w] => w_abort'[w]]_vars
    /\ [][(ab_i # ab_i') => (t_canceled' = t_canceled /\ wtask' = wtask)]_vars

\* C20 witness: abort() has returned while a worker runs the body of a task
\* that is not cancelled.
C20_Witness ==
    /\ abort_calls = 1
    /\ ab_i = 0
    /\ AllAborting
    /\ \E w \in Workers : wstate[w] = "body" /\ wtask[w] \notin t_canceled

\* =================================================================
\* KillableThread claims
\* =================================================================
\* controller c takes a step of its cancel() call that sets an Event
CancelSets(c) ==
    /\ c_pc[c] \in {"cancel_2", "cancel_3"}
    /\ c_pc'[c] # c_pc[c]

\* the step of cancel() that sets the Event the thread is blocked on
SetsWaitedEvent(c) ==
    \/ c_pc[c] = "cancel_2" /\ th_pc = "wws_wait"
    \/ c_pc[c] = "cancel_3" /\ th_pc = "sleep_wait"

\* a cancel() that began while the thread was blocked wakes the thread from
\* that wait, and the thread is out of the wait when the cancel() returns
CancelUnblocks ==
    \A c \in Controllers :
        (c \in cancel_in_block /\ CancelSets(c)) =>
            /\ SetsWaitedEvent(c) =>
                   (~Blocked(th_pc') /\ wake_cause' = "cancel")
            /\ c_pc'[c] = "idle" => ~Blocked(th_pc')

\* a thread woken by cancel() finds should_cancel() true, and that is what
\* wait_while_suspended() returns to it
WokenSeesCancel ==
    /\ wake_cause' = "cancel" => ShouldCancel(kt_canceled', stop_pkc')
    /\ (wake_cause = "cancel" /\ th_pc = "wws_ret" /\ th_pc' = "run")
           => wws_ret' = TRUE

\* C11: if cancel() is called while the thread is blocked in sleep(timeout)
\* or in wait_while_suspended(), the thread is unblocked by the cancel
\* (neither the timeout nor resume() is needed) and then observes
\* should_cancel() true.
C11_CancelUnblocks == [][CancelUnblocks /\ WokenSeesCancel]_vars

\* the thread was blocked in wait_while_suspended() without a timeout, still
\* suspended, and a cancel() woke it; wait_while_suspended() returned true
C11_Witness ==
    /\ wake_cause = "cancel"
    /\ th_timeout = None
    /\ th_pc = "run"
    /\ wws_ret = TRUE
    /\ kt_suspended
    /\ ~stop_pkc

\* no controller is inside a call of cancel(), suspend() or resume()
ControllersIdle == \A c \in Controllers : c_pc[c] = "idle"

\* C12: wait_while_suspended() does not stay blocked for a cancelled thread:
\* a call that begins after cancel() has returned is never left blocked
\* without a timeout once the calls of the other threads have all returned,
\* whatever the order of the cancel() and suspend(timeout=None) calls.
C12_CancelledNotBlocked ==
    ~ /\ th_pc = "wws_wait"
      /\ wws_after_cancel
      /\ th_timeout = None
      /\ ControllersIdle

\* C13: sleep(timeout) does not wait for its timeout when the thread should
\* cancel or should suspend, also when cancel() or suspend() was called
\* before the thread entered sleep(): once the calls of the other threads
\* have returned, a thread that is cancelled or asked to suspend is not
\* blocked in sleep().
C13_SleepNotLost ==
    (th_pc = "sleep_wait" /\ ControllersIdle)
        => ~(kt_canceled \/ should_suspend)

\* controller c returns from a suspend(block=True) call
BlockingSuspendReturns(c) ==
    /\ c_pc[c] \in {"suspend_5", "suspend_wait"}
    /\ c_pc'[c] = "idle"

\* the thread is inside wait_while_suspended() and has not been released
\* from its wait
InSuspension(pc) == pc \in {"wws_entered", "wws_wait"}

\* C14: when suspend(block=True) returns, the target thread is suspended:
\* unless it should cancel, it is inside wait_while_suspended() and has not
\* been released from it, in every interleaving with earlier resume() and
\* suspend() calls and with the target leaving a previous suspension.
C14_BlockingSuspendMeansSuspended ==
    [][\A c \in Controllers :
           (BlockingSuspendReturns(c) /\ ~ShouldCancel(kt_canceled', stop_pkc'))
               => InSuspension(th_pc')]_vars

\* some controller takes a step of a cancel() call
CancelStep == \E c \in Controllers : c_pc[c] # c_pc'[c] /\
                  (c_pc[c] \in {"cancel_2", "cancel_3"} \/ c_pc'[c] = "cancel_2")

\* a cancel() call on a cancelled thread leaves the cancelled flag, the
\* suspension request, the acknowledgement and the timeout as they are, and
\* the two Events it sets stay set if they were
SecondCancelKeeps ==
    (CancelStep /\ kt_canceled) =>
        /\ kt_canceled'
        /\ UNCHANGED <<kt_suspended, suspension_reached, suspension_timeout,
                       stop_pkc>>
        /\ is_not_suspended => is_not_suspended'
        /\ is_not_asleep => is_not_asleep'

\* what should_cancel() returns is true when the thread is cancelled, and
\* when the stop signal is set
ShouldCancelTrue ==
    (kt_canceled \/ stop_pkc) => ShouldCancel(kt_canceled, stop_pkc)

\* C15: once cancel() has been called, should_cancel() returns true in every
\* later state: no step of suspend(), resume(), sleep(),
\* wait_while_suspended() or of another cancel() clears the cancelled flag,
\* a second cancel() leaves the state as the first left it, and should_cancel()
\* is also true whenever the process-wide stop signal is set.
C15_CancelIsSticky ==
    /\ [][kt_canceled => kt_canceled']_vars
    /\ [][SecondCancelKeeps]_vars
    /\ [][ShouldCancelTrue' /\ (th_pc = "wws_ret" /\ th_pc' = "run"
              => wws_ret' = (kt_canceled \/ stop_pkc))]_vars

\* two cancel() calls have returned and a suspend() was made; a
\* wait_while_suspended() that began after a cancel() has returned true
C15_Witness ==
    /\ cancels_done = 2
    /\ kt_suspended
    /\ ControllersIdle
    /\ wws_after_cancel
    /\ th_pc = "run"
    /\ wws_ret = TRUE
    /\ kt_canceled
    /\ ~stop_pkc

\* C16: after a suspension with a timeout that ended by the timeout (no
\* cancel(), no call of another thread in progress), the thread has resumed
\* itself: should_suspend() and is_suspended() are both false until a new
\* suspend() call.
C16_TimeoutResumes ==
    (timed_out /\ ControllersIdle /\ ~kt_canceled)
        => (~should_suspend /\ ~is_suspended)

\* =================================================================
\* Tasks claims
\* =================================================================
\* no two members of the list have the same priority
DistinctPriorities(l) ==
    \A i, j \in DOMAIN l : i # j => l[i].priority # l[j].priority

\* the valid members of the list, in order
ValidMembers(l) == SelectSeq(l, isValid)

\* C30: after Tasks.add(x) the group holds none of its previous members that
\* are finished or cancelled, every valid member is kept in order and x is
\* appended, for any number and positions of invalid members (stated for
\* groups whose members have distinct priorities).
C30_AddDropsInvalid ==
    (ts_pc = "done" /\ DistinctPriorities(ts_before))
        => ts_list = ValidMembers(ts_before) \o ts_arg

\* =================================================================
\* FullSync claims
\* =================================================================
\* C26: the section queue is bounded (as the fetch queue and the delivery
\* queue are): a put on it completes only when that leaves the queue within
\* its capacity, so the enumerator is never more than that many section
\* descriptors ahead of the fetch stage.
C26_QueuesBounded ==
    [][Len(fs_section_queue') > Len(fs_section_queue)
           => Len(fs_section_queue') <= SectionQueueMaxsize]_vars

\* a section failed in this run: its iterator could not be obtained, or its
\* processing raised
SectionFailed == fs_enum_errors # {} \/ fs_proc_errors # {}

\* C27: a section failure, raised while enumerating a section or while
\* processing it, sets the aggregate success flag to false, and the flag
\* handed to the caller at the end of the run is then false (stated for
\* runs that are not cancelled).
C27_FailureFlipsFlag ==
    (fs_result # <<>> /\ SectionFailed /\ ~fs_cancel) => fs_result = <<FALSE>>

\* get_section_iterator raises in this step of thread e
IteratorRaises(e) ==
    /\ en_pc[e] = "iter"
    /\ <<e, en_i[e]>> \in fs_enum_errors' \ fs_enum_errors

\* after an enumeration error the thread is at the head of its loop, on the
\* next section; a thread that leaves its loop at the loop head without
\* cancellation has reached every section
EnumerationGoesOn ==
    /\ \A e \in Enumerators :
           IteratorRaises(e) =>
               /\ en_pc'[e] = "check"
               /\ en_i'[e] = en_i[e] + 1
               /\ fs_section_queue' = fs_section_queue
    /\ \A e \in Enumerators :
           (en_pc[e] = "check" /\ en_pc'[e] = "finally" /\ ~fs_cancel) =>
               \A i \in 1..MaxCatalog : <<e, i>> \in Range(fs_enumerated')

\* the processing of section fs_cur raises in this step
PlaystateRaises == fs_pc = "ps_section" /\ fs_cur \in fs_proc_errors'

\* after a processing error the orchestrator is back at the head of its
\* loop with the section queue untouched, and it leaves the loop only on
\* cancellation or when it has taken the final None
ProcessingGoesOn ==
    /\ PlaystateRaises =>
           /\ fs_pc' = "ps_loop"
           /\ fs_section_queue' = fs_section_queue
    /\ (fs_pc = "ps_loop" /\ fs_pc' = "after_ps") =>
           (fs_cancel \/ fs_cur' = None)
    /\ (fs_pc = "ps_loop" /\ fs_pc' = "ps_section") =>
           fs_cur' = Head(fs_section_queue)

\* C28: a section-level error does not stop the run: after an enumeration
\* error the enumerator continues with the remaining sections, and after a
\* playstate-processing error the orchestrator goes on to process the next
\* sections taken from the section queue, unless cancellation is requested.
C28_ErrorDoesNotStop == [][EnumerationGoesOn /\ ProcessingGoesOn]_vars

\* the first section of the first enumeration could not be enumerated and
\* the second was reached; the processing of section 1 raised and section 2
\* was processed after it
C28_Witness ==
    /\ <<1, 1>> \in fs_enum_errors
    /\ <<1, 2>> \in Range(fs_enumerated)
    /\ fs_proc_errors = {1}
    /\ fs_processed = <<1, 2>>
    /\ ~fs_cancel

\* C29: within one run put_sentinel is the last section registration on the
\* delivery queue: no add_section call follows it in any later stage of the
\* run (stated for runs that are not cancelled).
C29_SentinelIsLastRegistration ==
    ~fs_cancel =>
        \A i, j \in DOMAIN fs_calls :
            (i < j /\ fs_calls[i] = "put_sentinel")
                => fs_calls[j] # "add_section"

\* -----------------------------------------------------------------
\* ThreaderManager: claims
\* -----------------------------------------------------------------
\* the call of BackgroundThreader.shutdown on generation g has returned
ShutdownReturned(g) ==
    /\ sd_pc # "idle"
    /\ \E k \in 1..(1 + Len(tm_abandoned)) :
          PoolAt(k) = g /\ (sd_pc = "done" \/ k < sd_k)

\* the call of BackgroundThreader.shutdown on generation g has ended with an
\* exception
ShutdownRaised(g) == sd_pc = "raised" /\ PoolAt(sd_k) = g

\* C21: when shutdown() of a worker pool has ended, every worker thread of
\* the pool has exited and no worker of the pool holds a task: the call does
\* not end, by returning or by raising, while a thread of the pool is alive.
C21_ShutdownJoinsAll ==
    \A g \in Gens :
        (ShutdownReturned(g) \/ ShutdownRaised(g)) =>
            \A w \in Workers :
                pw_state[<<g, w>>] = "none" /\ pw_task[<<g, w>>] = None

\* a worker of generation g holds a task it has dequeued and not yet ended
HoldsTask(g) == \E w \in Workers : pw_task[<<g, w>>] # None

\* C22: working() of a pool is true whenever its queue is non-empty or one of
\* its workers holds a task it has dequeued and not finished executing, for
\* BackgroundWorkers and for NonstoppingBackgroundWorkers.
C22_WorkingCoversInFlight ==
    \A g \in Gens : (p_queue[g] # <<>> \/ HoldsTask(g)) => working(g)

\* generation g is fully idle: its queue is empty and no worker holds a task
FullyIdle(g) == p_queue[g] = <<>> /\ ~HoldsTask(g)

\* a step that is a call of ThreaderManager.reset
ResetStep == tm_resets' = tm_resets + 1

\* reset() has changed nothing
ResetChangedNothing ==
    UNCHANGED <<tm_index, p_workers, tm_abandoned, tm_threader, p_abort, pw_abort>>

\* reset() has aborted the active generation, moved it to the abandoned list
\* and installed a fresh generation under the next index
ResetAbandoned ==
    /\ tm_index' = tm_index + 1
    /\ tm_abandoned' = Append(tm_abandoned, tm_threader)
    /\ p_abort'[tm_threader]
    /\ \A w \in Workers : pw_abort'[<<tm_threader, w>>]
    /\ tm_threader' \notin Range(tm_abandoned')
    /\ ~p_abort'[tm_threader']
    /\ p_queue'[tm_threader'] = <<>>
    /\ \A w \in Workers :
          /\ ~pw_abort'[<<tm_threader', w>>]
          /\ pw_state'[<<tm_threader', w>>] = "none"
          /\ pw_task'[<<tm_threader', w>>] = None

\* C23: reset() on a fully idle active generation (empty queue, no worker
\* with a task) changes nothing; otherwise it aborts the active pool, appends
\* it to the abandoned list, increments the index by exactly one and installs
\* a fresh non-aborted pool with an empty queue, so that the index equals the
\* number of abandoned generations.
C23_ResetIdleOrAbandon ==
    [][/\ ResetStep =>
            IF FullyIdle(tm_threader) THEN ResetChangedNothing
            ELSE ResetAbandoned
       /\ tm_index' = Len(tm_abandoned')]_vars

\* a step that is a call of addTask on the ThreaderManager
SubmitStep == tk_next' = tk_next + 1

\* task t is inside run() on a worker of generation g
Running(t, g) ==
    \E w \in Workers : pw_state[<<g, w>>] = "body" /\ pw_task[<<g, w>>] = t

\* C24: a reset() that abandons a generation returns without waiting for it
\* and without cancelling anything: the tasks its workers hold are still held
\* and running after the call. A task submitted afterwards is queued on the
\* generation that is active then, never on an abandoned one, and only a
\* worker of the generation it was queued on runs it.
C24_ResetDoesNotWait ==
    [][/\ (ResetStep /\ ~ResetChangedNothing) =>
              UNCHANGED <<tk_canceled, tk_finished, pw_state, pw_task,
                          p_queue>>
       /\ SubmitStep =>
              /\ tm_threader \notin Range(tm_abandoned)
              /\ tk_pool'[tk_next] = tm_threader
              /\ \A g \in Gens :
                    tk_next \in Range(p_queue'[g]) <=> g = tm_threader
       /\ \A t \in 1..MaxTmTasks :
              tk_runner'[t] \in {None, tk_pool'[t]}]_vars

\* a task submitted after a reset is inside run() on the new generation
\* while a task of the abandoned generation, not cancelled, is still inside
\* run()
C24_Witness ==
    \E t1, t2 \in 1..MaxTmTasks :
        /\ tk_pool[t1] \in Range(tm_abandoned)
        /\ Running(t1, tk_pool[t1])
        /\ t1 \notin tk_canceled
        /\ tk_pool[t2] = tm_threader
        /\ Running(t2, tm_threader)

\* C25: after ThreaderManager.shutdown() has returned, no worker thread of
\* the active generation or of an abandoned generation is alive, whatever
\* the number of reset() calls before it.
C25_ShutdownLeavesNoThread ==
    sd_pc = "done" =>
        \A g \in {tm_threader} \cup Range(tm_abandoned) :
            \A w \in Workers : pw_state[<<g, w>>] = "none"

\* shutdown() has returned after more than one reset that abandoned a
\* generation, and has cancelled a task that was in flight
C25_Witness ==
    /\ sd_pc = "done"
    /\ Len(tm_abandoned) > 1
    /\ tk_canceled # {}

\* -----------------------------------------------------------------
\* FullSync: the stages and their threads
\* -----------------------------------------------------------------
\* C31: put_sentinel is called only after the scanner thread and every fetch
\* worker thread have ended, so no (index, payload) is put on the delivery
\* queue after the sentinel section is registered; and the stage of the new
\* and changed items returns only after the applier thread has ended.
C31_SentinelAfterProducers ==
    /\ "put_sentinel" \in Range(fs_calls) =>
          /\ scanner = "ended"
          /\ \A f \in Producers : fetchers[f] = "ended"
    /\ \A i, j \in DOMAIN fs_calls :
          (fs_calls[i] = "put_sentinel" /\ fs_calls[j] = "put") => j < i
    /\ (applier # "off" /\ fs_pc \notin {"stage1", "join_process"}) =>
          applier = "ended"

\* the stage has returned without cancellation after the fetch workers put
\* items and the sentinel was registered behind them
C31_Witness ==
    /\ fs_pc = "ps_loop"
    /\ ~fs_cancel
    /\ "put" \in Range(fs_calls)
    /\ "put_sentinel" \in Range(fs_calls)

\* a step in which a threaded_get_iterators thread ends
EnumeratorEnds ==
    \E e \in Enumerators : en_pc[e] # "ended" /\ en_pc'[e] = "ended"

\* a step that puts None on the section queue
PutsTerminator ==
    fs_section_queue' = Append(fs_section_queue, None)

\* the FullSync thread is inside processing_loop_playstates
InPlaystateLoop == fs_pc \in {"ps_loop", "ps_section"}

\* C32: a threaded_get_iterators thread puts None on the section queue
\* exactly when it ends, once, whether it ends by completion, by observed
\* cancellation or by an unexpected exception, and after cancellation it
\* enumerates no further section; so processing_loop_playstates does not
\* block forever on the section queue: it is always left in the end.
C32_TerminatorAlwaysPut ==
    /\ [][/\ EnumeratorEnds <=> PutsTerminator
          /\ \A e \in Enumerators : en_pc[e] = "ended" => en_pc'[e] = "ended"
          /\ fs_cancel => fs_enumerated' = fs_enumerated]_vars
    /\ (InPlaystateLoop ~> ~InPlaystateLoop)

\* the playstate loop has been left on cancellation, and the enumerator of
\* the playstate stage has ended before it reached the end of the catalogue
C32_Witness ==
    /\ fs_pc = "after_ps"
    /\ fs_cancel
    /\ en_pc[2] = "ended"
    /\ en_i[2] <= MaxCatalog

\* -----------------------------------------------------------------
\* ProcessingQueue: the sentinel and a waiting consumer
\* -----------------------------------------------------------------
\* a step that is a call of put_sentinel
SentinelStep == sentinel = None /\ sentinel' # None

\* C33: when put_sentinel is called while the consumer is blocked in get()
\* and every earlier section is drained (or none was registered), so that
\* the sentinel section becomes the active one, the consumer is woken,
\* whether or not it has called task_done() for the items it got before.
C33_SentinelWakesConsumer ==
    [][(SentinelStep /\ cstate = "wait_ne" /\ current_queue' = sentinel') =>
           cstate' = "woke_ne"]_vars

\* -----------------------------------------------------------------
\* BackgroundThreader: submission against workers about to exit
\* -----------------------------------------------------------------
\* C34: a task put by addTask/addTasks on a pool that is not aborted is not
\* left behind: once the call has returned, a task is never queued while no
\* worker thread is alive to take it, also when the call ran while workers
\* that had seen the queue empty were about to exit.
C34_NoTaskLeftBehind ==
    (/\ cl_pc = "idle"
     /\ tq # <<>>
     /\ \A w \in Workers : ~aborted(w)) =>
        \E w \in Workers : wstate[w] # "none"

\* -----------------------------------------------------------------
\* ProcessingQueue: backpressure and ordered delivery
\* -----------------------------------------------------------------
\* producer p is blocked in put() with the item that the consumer, blocked in
\* OrderedQueue._get, is waiting for
HoldsAwaitedItem(p) ==
    /\ pstate[p] = "wait"
    /\ pitem[p][2].section = current_queue
    /\ pitem[p][1] = next_index[current_queue]

\* C35: the delivery queue does not deadlock under backpressure: with a
\* finite capacity and blocking puts made in any order, also out of index
\* order into an ordered section, the consumer is never blocked waiting for
\* the next index while the put() of the item with that index is itself
\* blocked by the capacity bound, so every put() can complete and every
\* item can be received.
C35_NoBackpressureDeadlock ==
    ~(/\ cstate = "wait_next"
      /\ \E p \in Producers : HoldsAwaitedItem(p))

\* -----------------------------------------------------------------
\* FullSync: the deletion stage and the callback
\* -----------------------------------------------------------------
\* the FullSync thread is in the deletion stage
InDeletion == fs_pc \in {"delete", "remove"}

\* C36: the deletion stage is entered only from the end of the playstate
\* stage, with the success flag true and no cancellation seen by the test in
\* front of it, after the stage of the new and changed items has ended; an
\* item is removed only right after a test that saw no cancellation, and
\* once the stage has seen the cancellation it is left for good.
C36_DeletionGuarded ==
    [][/\ (~InDeletion /\ InDeletion') =>
              /\ fs_pc = "after_ps"
              /\ fs_successful
              /\ ~fs_cancel
              /\ applier = "ended"
              /\ "put_sentinel" \in Range(fs_calls)
       /\ InDeletion' => fs_successful'
       /\ fs_removed' # fs_removed => fs_pc = "remove"
       /\ (fs_pc # "remove" /\ fs_pc' = "remove") =>
              (fs_pc = "delete" /\ ~fs_cancel)
       /\ (fs_pc = "delete" /\ fs_cancel /\ fs_pc' # fs_pc) =>
              fs_pc' = "finally"
       /\ (fs_pc \in {"finally", "done"}) => ~InDeletion']_vars

\* the deletion stage removed an item, was then cancelled and the run ended
C36_Witness ==
    /\ fs_removed > 0
    /\ fs_removed < MaxDeletes
    /\ fs_cancel
    /\ fs_pc = "done"

\* a step in which the callback is invoked
CallbackStep == fs_result' # fs_result

QueuesSection(s) ==
    /\ s # None
    /\ fs_section_queue' = Append(fs_section_queue, s)

\* section i of enumerator e has been registered with the delivery queue
Registered(e, i) == <<e, i>> \in Range(fs_registered)

\* C38: a section is put on the section queue only after add_section has
\* registered it with the delivery queue, a section whose iterator has no
\* items is neither registered nor queued, and so every section that is on
\* the section queue, to be taken by the scanner, is a registered one.
C38_RegisteredBeforeQueued ==
    /\ [](\A k \in 1..Len(fs_section_queue) :
             fs_section_queue[k] # None =>
                \E e \in Enumerators : Registered(e, fs_section_queue[k]))
    /\ [](\A e \in Enumerators, i \in 1..MaxCatalog :
             <<e, i>> \in fs_empty => ~Registered(e, i))
    /\ [][/\ \A s \in 1..MaxCatalog :
                QueuesSection(s) =>
                   \E e \in Enumerators :
                      /\ en_pc[e] = "put"
                      /\ en_pc'[e] # "put"
                      /\ en_i[e] = s
                      /\ Registered(e, s)
                      /\ <<e, s>> \notin fs_empty
          /\ Len(fs_section_queue') > Len(fs_section_queue) =>
                \/ fs_section_queue' = Append(fs_section_queue, None)
                \/ \E s \in 1..MaxCatalog : QueuesSection(s)]_vars

\* one section with no items was skipped and a later one of the same
\* enumerator, registered, is on the section queue
C38_Witness ==
    \E e \in Enumerators, i, j \in 1..MaxCatalog :
        /\ <<e, i>> \in fs_empty
        /\ en_i[e] > i
        /\ Registered(e, j)
        /\ \E k \in 1..Len(fs_section_queue) : fs_section_queue[k] = j

\* the generations the manager has created so far
Created == 0..tm_index

\* C39: every generation the manager creates has the worker count the
\* manager was constructed with, that of the first generation: after any
\* number of reset() calls the active pool has as many workers as the
\* initial pool.
C39_SameWorkerCount ==
    \A g \in Created : p_workers[g] = p_workers[0]

====
